---- MODULE Spec2Model ----
(***************************************************************************)
(* PhysChat worker (src/worker/src/index.js): one request to /search or    *)
(* /ai-search, the agentic planner loop it drives, and direct calls of the *)
(* deterministic planner and of the synthesis generator.                   *)
(*                                                                         *)
(* Strings are sequences of tokens.  A paper is [doi, src]: doi 0 stands   *)
(* for a record without identifier, src is the number of the provider call *)
(* that returned it.  Provider records are taken to be well typed (titles  *)
(* and abstracts are strings or absent); LLM tool inputs are not.          *)
(***************************************************************************)
EXTENDS Integers, Sequences, FiniteSets, TLC

\* ------------------------------------------------------------------ bounds
\* largest maxIterations argument of executeAgenticSearch that is explored
MaxIterations == 3
\* largest number of tool_use blocks the LLM returns during one request
MaxToolUses == 2
\* longest generated input of sanitizeQuery and of fallbackQueryParsing
MaxTokens == 4
\* largest number of sub-queries whose results are aggregated
MaxSubQueries == 3
\* searches submitted in the sidebar on one page
MaxSearches == 2

\* ------------------------------------------------------- program constants
MAX_QUERY_LENGTH == 500
\* per_page: Math.min(limit, 100)
ProviderMaxPerPage == 100
\* Math.min(toolInput.limit || 10, 20)
AgentDefaultLimit == 10
AgentMaxLimit == 20
\* papers.slice(0, 20)
ResultCap == 20
\* scoredResults.slice(0, 5)
SynthesisTopK == 5
\* relevanceScore = totalWeight + (overlapCount - 1) x 1.5, in tenths
OverlapBonus == 15
\* rankWeight = subqueryWeight x (1 - i x 0.02), in hundredths
RankDecay == 2

\* ----------------------------------------------------------------- helpers
Min(a, b) == IF a < b THEN a ELSE b

Take(s, n) == SubSeq(s, 1, Min(n, Len(s)))

RECURSIVE SeqsUpTo(_, _)
SeqsUpTo(S, n) ==
  IF n = 0 THEN {<<>>}
  ELSE LET shorter == SeqsUpTo(S, n - 1)
       IN shorter \cup {Append(s, x) : s \in {t \in shorter : Len(t) = n - 1}, x \in S}

\* !env.ANTHROPIC_API_KEY is ~HasCredential(key)
HasCredential_Always(key) == TRUE
HasCredential(key) == key

\* ------------------------------------------------------------ sanitizeQuery
\* tokens: "w1" "w2" benign words, "sp" one whitespace character, "tick" `
\* (three of them in a row are a fence), "lt" <, "gt" >, "url" the scheme of
\* a URL ("https://"),
\* "inj" the literal [INST], "ignore" "previous" "instructions" "system" the
\* words, ":" the colon, "lbr" {{, "rbr" }}, "long" a run of MAX_QUERY_LENGTH
\* letters, "longcut" a shorter piece of such a run; for the length limit
\* every other token counts as one character
RECURSIVE IndexFrom(_, _, _)
IndexFrom(s, t, i) ==
  IF i > Len(s) THEN 0 ELSE IF s[i] = t THEN i ELSE IndexFrom(s, t, i + 1)

\* s.replace(/open[^close]*?close/g, ''): leftmost spans, left to right
RECURSIVE RemoveSpans(_, _, _)
RemoveSpans(s, open, close) ==
  IF s = <<>> THEN <<>>
  ELSE IF s[1] = open
       THEN LET j == IndexFrom(s, close, 2)
            IN IF j = 0 THEN <<s[1]>> \o RemoveSpans(Tail(s), open, close)
               ELSE RemoveSpans(SubSeq(s, j + 1, Len(s)), open, close)
       ELSE <<s[1]>> \o RemoveSpans(Tail(s), open, close)

\* length of the whitespace run s starts with
IsFenceAt(s, i) ==
  i + 2 <= Len(s) /\ s[i] = "tick" /\ s[i + 1] = "tick" /\ s[i + 2] = "tick"

RECURSIVE FenceFrom(_, _)
FenceFrom(s, i) ==
  IF i + 2 > Len(s) THEN 0 ELSE IF IsFenceAt(s, i) THEN i ELSE FenceFrom(s, i + 1)

\* s.replace(/```[\s\S]*?```/g, '')
RECURSIVE RemoveFences(_)
RemoveFences(s) ==
  IF s = <<>> THEN <<>>
  ELSE IF IsFenceAt(s, 1)
       THEN LET j == FenceFrom(s, 4)
            IN IF j = 0 THEN <<s[1]>> \o RemoveFences(Tail(s))
               ELSE RemoveFences(SubSeq(s, j + 3, Len(s)))
       ELSE <<s[1]>> \o RemoveFences(Tail(s))

RECURSIVE SkipSpaces(_)
SkipSpaces(s) == IF s # <<>> /\ Head(s) = "sp" THEN 1 + SkipSpaces(Tail(s)) ELSE 0

\* the injectionPatterns that are modelled, in the order of the array:
\* /ignore\s+(previous|above|all)\s+(instructions?|prompts?|rules?)/gi,
\* /system\s*:/gi and /\[INST\]/gi; "sp+" is \s+, "sp*" is \s*.
\* /\{\{.*?\}\}/g comes after them and is applied by RemoveSpans
InjectionPatterns ==
  << <<"ignore", "sp+", "previous", "sp+", "instructions">>,
     <<"system", "sp*", ":">>,
     <<"inj">> >>

\* number of tokens a match of pat takes at the start of s, -1 without match
RECURSIVE MatchAt(_, _)
MatchAt(s, pat) ==
  IF pat = <<>> THEN 0
  ELSE IF Head(pat) \in {"sp+", "sp*"}
       THEN LET n == SkipSpaces(s)
                r == MatchAt(SubSeq(s, n + 1, Len(s)), Tail(pat))
            IN IF (Head(pat) = "sp+" /\ n = 0) \/ r < 0 THEN -1 ELSE n + r
       ELSE IF s # <<>> /\ Head(s) = Head(pat)
            THEN LET r == MatchAt(Tail(s), Tail(pat))
                 IN IF r < 0 THEN -1 ELSE 1 + r
            ELSE -1

\* sanitized.replace(pattern, ''): the matches from left to right
RECURSIVE RemovePattern(_, _)
RemovePattern(s, pat) ==
  IF s = <<>> THEN <<>>
  ELSE LET n == MatchAt(s, pat)
       IN IF n > 0 THEN RemovePattern(SubSeq(s, n + 1, Len(s)), pat)
          ELSE <<Head(s)>> \o RemovePattern(Tail(s), pat)

\* for (const pattern of injectionPatterns) ..., from array entry i on
RECURSIVE RemoveInjections(_, _)
RemoveInjections(s, i) ==
  IF i > Len(InjectionPatterns) THEN RemoveSpans(s, "lbr", "rbr")
  ELSE RemoveInjections(RemovePattern(s, InjectionPatterns[i]), i + 1)

\* s.replace(/https?:\/\/[^\s]+/gi, ''): the scheme and the run of
\* non-whitespace after it; a scheme followed by nothing is kept
RECURSIVE RemoveUrls(_)
RemoveUrls(s) ==
  IF s = <<>> THEN <<>>
  ELSE IF s[1] = "url" /\ Len(s) >= 2 /\ s[2] # "sp"
       THEN LET j == IndexFrom(s, "sp", 2)
            IN IF j = 0 THEN <<>> ELSE RemoveUrls(SubSeq(s, j, Len(s)))
       ELSE <<s[1]>> \o RemoveUrls(Tail(s))

\* s.replace(/\s+/g, ' ')
CollapseWhitespace_None(s) == s
RECURSIVE CollapseWhitespace(_)
CollapseWhitespace(s) ==
  IF Len(s) < 2 THEN s
  ELSE IF s[1] = "sp" /\ s[2] = "sp" THEN CollapseWhitespace(Tail(s))
       ELSE <<s[1]>> \o CollapseWhitespace(Tail(s))

\* String.prototype.trim
RECURSIVE TrimStart(_)
TrimStart(s) == IF s # <<>> /\ s[1] = "sp" THEN TrimStart(Tail(s)) ELSE s

RECURSIVE TrimEnd(_)
TrimEnd(s) ==
  IF s # <<>> /\ s[Len(s)] = "sp" THEN TrimEnd(SubSeq(s, 1, Len(s) - 1)) ELSE s

Trim(s) == TrimEnd(TrimStart(s))

CharLen(t) ==
  IF t = "long" THEN MAX_QUERY_LENGTH
  ELSE IF t = "longcut" THEN MAX_QUERY_LENGTH - 1 ELSE 1

\* String.prototype.length
RECURSIVE CharLength(_)
CharLength(s) == IF s = <<>> THEN 0 ELSE CharLen(Head(s)) + CharLength(Tail(s))

\* sanitized.substring(0, n)
RECURSIVE Substring(_, _)
Substring(s, n) ==
  IF s = <<>> \/ n = 0 THEN <<>>
  ELSE IF CharLen(Head(s)) <= n
       THEN <<Head(s)>> \o Substring(Tail(s), n - CharLen(Head(s)))
       ELSE <<"longcut">>

sanitizeQuery(input) ==
  IF input = <<>> THEN <<>>
  ELSE LET s1 == RemoveFences(input)
           s2 == RemoveSpans(s1, "tick", "tick")
           s3 == RemoveSpans(s2, "lt", "gt")
           s4 == RemoveInjections(s3, 1)
           s5 == RemoveUrls(s4)
           s6 == IF CharLength(s5) > MAX_QUERY_LENGTH
                 THEN Substring(s5, MAX_QUERY_LENGTH) ELSE s5
       IN Trim(CollapseWhitespace(s6))

\* ------------------------------------------------------ callTesseractSearch
\* result lists (DOIs in rank order) the provider may hold for a query
ProviderLists ==
  { <<1, 0, 2, 1>>,
    [i \in 1..12 |-> i],
    [i \in 1..25 |-> i + 9] }

\* what the provider answers to one request: an HTTP failure, a JSON-RPC
\* error, or a result list cut to per_page
ProviderOutcomes ==
  {[kind |-> "http", status |-> st, list |-> <<>>] : st \in {401, 403, 500}}
    \cup {[kind |-> "mcp_error", status |-> 200, list |-> <<>>]}
    \cup {[kind |-> "ok", status |-> 200, list |-> l] : l \in ProviderLists}

NoSearchResult ==
  [ok |-> FALSE, message |-> "", total |-> 0, results |-> <<>>]

\* response.status === 401 || response.status === 403
IsAuthFailure(status) == status = 401 \/ status = 403

callTesseractSearch(searchParams, lim, sort, outcome, callNo) ==
  LET per_page == Min(lim, ProviderMaxPerPage)
  IN IF outcome.kind = "http"
     THEN [NoSearchResult EXCEPT
             !.message = IF IsAuthFailure(outcome.status) THEN "Unauthorized" ELSE "API error"]
     ELSE IF outcome.kind = "mcp_error"
     THEN [NoSearchResult EXCEPT !.message = "API error"]
     ELSE LET page == Take(outcome.list, per_page)
          IN [ok |-> TRUE, message |-> "", total |-> Len(outcome.list),
              results |-> [i \in 1..Len(page) |-> [doi |-> page[i], src |-> callNo]]]

\* a calendar date; NoDate is an absent dateRange
NoDate == [year |-> 0, month |-> 0, day |-> 0]

\* the request as the provider sees it (searchArgs)
SearchArgs(searchParams, lim, sort) ==
  [q |-> searchParams.query, per_page |-> Min(lim, ProviderMaxPerPage),
   sort |-> sort, start_date |-> searchParams.dateRange]

\* -------------------------------------------------------------- LLM inputs
NoToolUse ==
  [name |-> "", query |-> <<>>, search_type |-> "", limit |-> 0,
   reasoning |-> "", malformed |-> FALSE]

\* tool_use blocks the LLM may return; limit 0 stands for an absent limit
SearchUses(q) ==
  { [NoToolUse EXCEPT !.name = "search_papers", !.query = q],
    [NoToolUse EXCEPT !.name = "search_papers", !.query = <<"w2">>,
                      !.search_type = "recent", !.limit = 25] }

OtherUses ==
  { [NoToolUse EXCEPT !.name = "analyze_gaps"],
    [NoToolUse EXCEPT !.name = "analyze_gaps", !.malformed = TRUE],
    [NoToolUse EXCEPT !.name = "finish", !.reasoning = "r1"],
    [NoToolUse EXCEPT !.name = "finish", !.reasoning = "r2"],
    [NoToolUse EXCEPT !.name = "lookup"] }

ToolUses(q) == SearchUses(q) \cup OtherUses

\* the first VariedToolUses tool_use blocks of a request range over ToolUses;
\* the blocks the LLM returns after them are a further search for the query
\* or finish
VariedToolUses == 2

LaterUses(q) ==
  { [NoToolUse EXCEPT !.name = "search_papers", !.query = q],
    [NoToolUse EXCEPT !.name = "finish", !.reasoning = "r1"] }

NoData == [stop_reason |-> "", hasText |-> FALSE, content |-> <<>>]

\* bodies of successful LLM responses, with at most n tool_use blocks, n
\* being what is left of MaxToolUses; hasText is only read when the stop
\* reason is end_turn
LLMTurns(q, n) ==
  {[stop_reason |-> "tool_use", hasText |-> FALSE, content |-> c] :
      c \in {s \in SeqsUpTo(ToolUses(q), n) :
               \A i \in 1..Len(s) :
                 MaxToolUses - n + i > VariedToolUses => s[i] \in LaterUses(q)}}
    \cup
  {[stop_reason |-> "end_turn", hasText |-> t, content |-> <<>>] : t \in BOOLEAN}
    \cup
  {[stop_reason |-> "max_tokens", hasText |-> FALSE, content |-> c] :
      c \in {<<>>} \cup (IF n > 0 THEN {<<[NoToolUse EXCEPT !.name = "finish", !.reasoning = "r1"]>>} ELSE {})}

\* outcome of one fetch to the LLM provider
LLMOutcomes(q, n) ==
  {[kind |-> "throw", status |-> 0, data |-> NoData]}
    \cup {[kind |-> "http", status |-> st, data |-> NoData] : st \in {401, 500}}
    \cup {[kind |-> "http", status |-> 200, data |-> d] : d \in LLMTurns(q, n)}

\* response.ok
ResponseOk_Always(status) == TRUE
ResponseOk(status) == status >= 200 /\ status <= 299

\* ------------------------------------------------------------------- state
VARIABLES
  op,            \* "search", "ai-search", "summarize", or a direct call:
                 \* "plan" (parseQueryWithClaude), "synthesis"
  hasKey,        \* env.ANTHROPIC_API_KEY is configured
  rawQuery,      \* body.query (body.searchQuery of /summarize)
  title,         \* body.title of /summarize
  abstract,      \* body.abstract of /summarize
  limit,         \* body.limit; only the plain searches read it
  maxIterations, \* argument of executeAgenticSearch
  now,           \* date of the request: what new Date() returns
  subResults,    \* the sub-query results handed to the result aggregator
  pc,            \* position of the request
  query,         \* sanitizeQuery(rawQuery)
  iteration, finished, finishReason, allPapers, agentSteps, messages,
  data,          \* body of the LLM response being processed
  toolIdx,       \* index of the next tool_use block of data.content
  toolResults,   \* tool results of the current turn
  llmCalls,      \* number of requests sent to the LLM provider
  providerCalls, \* requests sent to the search provider, with their outcome
  prompts,       \* the query texts placed into the prompts sent to the LLM
  toolCount,     \* tool_use blocks received so far
  llmStatus,     \* HTTP status of the last LLM response of the loop (0: none)
  agentResult,   \* the object executeAgenticSearch returned
  synthesis,     \* result of generateAnswerSynthesis
  reply,         \* what the LLM provider answered to the request of a direct
                 \* call of the planner or of the synthesis generator, or to
                 \* the request of the summarizer
  arrived,       \* the sub-queries whose result list the aggregator has merged
  entries,       \* the aggregation map, in the order of first sighting
  ranked,        \* the ranked output of the aggregator
  loaded,        \* sidebar: restoreSearchState has run on this page
  submitted,     \* sidebar: searches submitted on this page
  currentQuery, currentResults, currentTotalFound, currentAIAnalysis,
  inflight,      \* sidebar: the searches that await the worker's response
  summaryJobs,   \* sidebar: the running fetchAISummaries loops
  cards,         \* sidebar: the result cards of physchat-results-list
  panel,         \* sidebar: the links of the synthesis panel and its visibility
  errorVisible,  \* sidebar: physchat-error is shown
  storage,       \* chrome.storage.local: physchat_search_state
  response       \* the response of the endpoint, or the value a direct call returns

agentVars == <<iteration, finished, finishReason, allPapers, agentSteps, messages,
               data, toolIdx, toolResults, toolCount, llmStatus, agentResult>>
inputVars == <<op, hasKey, rawQuery, title, abstract, limit, maxIterations, now,
               subResults>>
aggVars == <<arrived, entries, ranked>>
sideVars == <<loaded, submitted, currentQuery, currentResults, currentTotalFound,
              currentAIAnalysis, inflight, summaryJobs, cards, panel, errorVisible,
              storage>>
vars == <<op, hasKey, rawQuery, title, abstract, limit, maxIterations, now, subResults,
          pc, query, iteration, finished, finishReason, allPapers, agentSteps, messages,
          data, toolIdx, toolResults, llmCalls, providerCalls, prompts, toolCount,
          llmStatus, agentResult, synthesis, reply, arrived, entries, ranked, loaded,
          submitted, currentQuery, currentResults, currentTotalFound, currentAIAnalysis,
          inflight, summaryJobs, cards, panel, errorVisible, storage, response>>

NoReason == [text |-> "null", n |-> 0]

NoAgentResult ==
  [returned |-> FALSE, success |-> FALSE, fallbackReason |-> "", papers |-> <<>>,
   agentSteps |-> <<>>, finishReason |-> NoReason, totalSearches |-> 0]

NoPlan == [interpretation |-> <<>>, intent |-> "", concepts |-> <<>>, searches |-> <<>>]

NoResponse ==
  [status |-> 0, error |-> "", aiAnalysis |-> FALSE, fallback |-> FALSE,
   fallbackReason |-> "", total |-> 0, results |-> <<>>, finishReason |-> NoReason,
   synthesis |-> "null", plan |-> NoPlan,
   summary |-> <<>>, aiGenerated |-> FALSE, fromTitle |-> FALSE]

RawQueries ==
  { <<>>,                          \* missing or empty
    <<"lt", "w1", "gt">>,          \* sanitizes to the empty string
    <<"inj", "w1", "sp", "sp", "url", "w2", "sp", "dark", "sp", "matter", "?">> }

Limits == {15, 25}

\* dates of the request
DefaultTime == [year |-> 2026, month |-> 11, day |-> 2]
CallTimes == {DefaultTime, [year |-> 2024, month |-> 2, day |-> 29]}

\* body.title and body.abstract of /summarize; <<>> is an absent property
Titles == {<<>>, <<"w1">>}

Abstracts ==
  { <<>>,
    <<"sp">>,
    <<"w1", "sp", "lt", "w2", "gt", "w2", ".", "sp", "w1", "?", "!", "sp", "w2", ".", "w1">>,
    <<"w1", "sp", "w2">> }

\* nothing has happened yet
StartState ==
  /\ pc = "start"
  /\ query = <<>>
  /\ iteration = 0
  /\ finished = FALSE
  /\ finishReason = NoReason
  /\ allPapers = <<>>
  /\ agentSteps = <<>>
  /\ messages = <<>>
  /\ data = NoData
  /\ toolIdx = 0
  /\ toolResults = <<>>
  /\ llmCalls = 0
  /\ providerCalls = <<>>
  /\ prompts = <<>>
  /\ toolCount = 0
  /\ llmStatus = 0
  /\ agentResult = NoAgentResult
  /\ synthesis = "null"
  /\ reply = ""
  /\ arrived = {}
  /\ entries = <<>>
  /\ ranked = <<>>
  /\ loaded = FALSE
  /\ submitted = 0
  /\ currentQuery = ""
  /\ currentResults = <<>>
  /\ currentTotalFound = 0
  /\ currentAIAnalysis = [synthesis |-> <<>>]
  /\ inflight = {}
  /\ summaryJobs = {}
  /\ cards = <<>>
  /\ panel = [visible |-> FALSE, links |-> {}]
  /\ errorVisible = FALSE
  /\ storage = [query |-> "", results |-> <<>>, totalFound |-> 0,
                aiAnalysis |-> [synthesis |-> <<>>]]
  /\ response = NoResponse

\* one request to an endpoint, or one direct call of the planner or of the
\* synthesis generator; the date varies for the runs of one iteration
Init ==
  /\ op \in {"search", "ai-search", "summarize", "plan", "synthesis"}
  /\ hasKey \in BOOLEAN
  /\ rawQuery \in RawQueries
  /\ title \in (IF op = "summarize" THEN Titles ELSE {<<>>})
  /\ abstract \in (IF op = "summarize" THEN Abstracts ELSE {<<>>})
  /\ limit \in (IF op = "search" \/ (op = "ai-search" /\ ~hasKey) THEN Limits ELSE {15})
  /\ maxIterations \in (IF op = "ai-search" THEN 1..MaxIterations ELSE {1})
  /\ now \in (IF op = "ai-search" /\ hasKey /\ maxIterations = 1
              THEN CallTimes ELSE {DefaultTime})
  /\ subResults = <<>>
  /\ StartState

\* ------------------------------------------------------ executeAgenticSearch
NoStep ==
  [type |-> "", iteration |-> 0, query |-> <<>>, searchType |-> "", status |-> "",
   totalFound |-> 0, newPapers |-> 0, error |-> "", reasoning |-> ""]

Block(id, isError, text) == [tool_use_id |-> id, is_error |-> isError, text |-> text]

\* the ids the LLM gives the tool_use blocks of the turn of iteration it
ToolUseId(it, idx) == <<it, idx>>

HasDoi_Never(allP, doi) == FALSE
HasDoi(allP, doi) == \E i \in 1..Len(allP) : allP[i].doi = doi

\* for (const paper of results.results) if (paper.doi && !allPapers.has(paper.doi)) ...
RECURSIVE AddPapers(_, _)
AddPapers(allP, results) ==
  IF results = <<>> THEN allP
  ELSE LET paper == Head(results)
       IN IF paper.doi # 0 /\ ~HasDoi(allP, paper.doi)
          THEN AddPapers(Append(allP, paper), Tail(results))
          ELSE AddPapers(allP, Tail(results))

\* toolInput.search_type || 'general'
SearchType(toolInput) ==
  IF toolInput.search_type = "" THEN "general" ELSE toolInput.search_type

\* Math.min(toolInput.limit || 10, 20)
SearchLimit(toolInput) ==
  Min(IF toolInput.limit = 0 THEN AgentDefaultLimit ELSE toolInput.limit, AgentMaxLimit)

IsLeapYear(y) == (y % 4 = 0 /\ y % 100 # 0) \/ y % 400 = 0

\* threeYearsAgo.setFullYear(threeYearsAgo.getFullYear() - 3) and the date
\* part of toISOString(): setFullYear keeps month and day of the month, and
\* a day the month of the new year does not have runs over into the next
\* month (the worker's local time is UTC)
ThreeYearsAgo(callTime) ==
  LET y == callTime.year - 3
  IN IF callTime.month = 2 /\ callTime.day = 29 /\ ~IsLeapYear(y)
     THEN [year |-> y, month |-> 3, day |-> 1]
     ELSE [year |-> y, month |-> callTime.month, day |-> callTime.day]

\* searchParams of a search_papers invocation
SearchParams(toolInput, callTime) ==
  [query |-> toolInput.query,
   dateRange |-> IF SearchType(toolInput) = "recent" THEN ThreeYearsAgo(callTime)
                 ELSE NoDate]

\* iteration < maxIterations && !finished
LoopContinues_Unbounded(it, maxIt, fin) == ~fin
LoopContinues_IgnoresFinished(it, maxIt, fin) == it < maxIt
LoopContinues(it, maxIt, fin) == it < maxIt /\ ~fin

\* stop reasons of the two branches of the loop body
IsEndTurn(d) == d.stop_reason = "end_turn"
IsToolUse(d) == d.stop_reason = "tool_use"

\* one record of providerCalls
ProviderCall(args, result) ==
  [args |-> args, ok |-> result.ok, message |-> result.message]

\* the tool result of a failed search
SearchErrorResult_NotFlagged(id) == Block(id, FALSE, "search failed")
SearchErrorResult(id) == Block(id, TRUE, "search failed")

\* entry of executeAgenticSearch: the credential check and the initial state
AgentStart ==
  /\ pc = "agent_start"
  /\ IF ~HasCredential(hasKey)
     THEN /\ pc' = "ai_fallback"
          /\ agentResult' = [NoAgentResult EXCEPT !.returned = TRUE,
                                !.fallbackReason = "API key not configured"]
          /\ messages' = messages
     ELSE /\ pc' = "agent_loop"
          /\ agentResult' = agentResult
          /\ messages' = <<[role |-> "user", content |-> <<>>]>>
  /\ UNCHANGED <<inputVars, sideVars, aggVars, reply, prompts, query, iteration, finished, finishReason, allPapers,
                 agentSteps, data, toolIdx, toolResults, llmCalls, providerCalls,
                 toolCount, llmStatus, synthesis, response>>

\* one LLM call of the loop and the handling of its response up to the first
\* tool_use block
AgentLLMCall ==
  /\ pc = "agent_loop"
  /\ LoopContinues(iteration, maxIterations, finished)
  /\ llmCalls' = llmCalls + 1
  /\ prompts' = Append(prompts, query)
  /\ \E r \in LLMOutcomes(query, MaxToolUses - toolCount) :
       IF r.kind = "throw"
       THEN /\ agentSteps' = Append(agentSteps,
                 [NoStep EXCEPT !.type = "error", !.iteration = iteration + 1,
                                !.error = "fetch failed"])
            /\ pc' = "agent_return"
            /\ data' = NoData
            /\ llmStatus' = 0
            /\ UNCHANGED <<iteration, finished, finishReason, messages,
                           toolIdx, toolResults, toolCount>>
       ELSE IF ~ResponseOk(r.status)
       THEN /\ pc' = "agent_return"
            /\ data' = NoData
            /\ llmStatus' = r.status
            /\ UNCHANGED <<iteration, finished, finishReason, agentSteps, messages,
                           toolIdx, toolResults, toolCount>>
       ELSE /\ data' = r.data
            /\ llmStatus' = r.status
            /\ toolCount' = toolCount + Len(r.data.content)
            /\ IF IsEndTurn(r.data)
               THEN /\ agentSteps' = IF r.data.hasText
                                     THEN Append(agentSteps,
                                            [NoStep EXCEPT !.type = "thinking",
                                                           !.iteration = iteration + 1])
                                     ELSE agentSteps
                    /\ finished' = TRUE
                    /\ finishReason' = [text |-> "Agent completed reasoning", n |-> 0]
                    /\ pc' = "agent_return"
                    /\ UNCHANGED <<iteration, messages, toolIdx, toolResults>>
               ELSE IF IsToolUse(r.data)
               THEN /\ messages' = Append(messages,
                         [role |-> "assistant",
                          content |-> [i \in 1..Len(r.data.content) |->
                                         Block(ToolUseId(iteration + 1, i), FALSE,
                                               r.data.content[i].name)]])
                    /\ toolIdx' = 1
                    /\ toolResults' = <<>>
                    /\ pc' = "agent_tools"
                    /\ UNCHANGED <<iteration, finished, finishReason, agentSteps>>
               ELSE /\ iteration' = iteration + 1
                    /\ pc' = "agent_loop"
                    /\ UNCHANGED <<finished, finishReason, agentSteps, messages,
                                   toolIdx, toolResults>>
  /\ UNCHANGED <<inputVars, sideVars, aggVars, reply, query, allPapers, providerCalls, agentResult, synthesis,
                 response>>

CurrentToolUse == data.content[toolIdx]

AtToolUse(name) ==
  /\ pc = "agent_tools"
  /\ toolIdx <= Len(data.content)
  /\ CurrentToolUse.name = name

\* a search_papers invocation: the step, the provider call, and either the
\* merge into allPapers or the error tool result
AgentSearchPapers ==
  /\ AtToolUse("search_papers")
  /\ \E outcome \in ProviderOutcomes :
       LET toolInput == CurrentToolUse
           step == [NoStep EXCEPT !.type = "search", !.iteration = iteration + 1,
                                  !.query = toolInput.query,
                                  !.searchType = SearchType(toolInput)]
           results == callTesseractSearch(SearchParams(toolInput, now), SearchLimit(toolInput),
                                          "relevance", outcome, Len(providerCalls) + 1)
           merged == AddPapers(allPapers, results.results)
           id == ToolUseId(iteration + 1, toolIdx)
       IN /\ providerCalls' = Append(providerCalls,
               ProviderCall(SearchArgs(SearchParams(toolInput, now), SearchLimit(toolInput),
                                       "relevance"), results))
          /\ IF results.ok
             THEN /\ allPapers' = merged
                  /\ agentSteps' = Append(agentSteps,
                       [step EXCEPT !.totalFound = results.total,
                                    !.newPapers = Len(merged) - Len(allPapers),
                                    !.status = "success"])
                  /\ toolResults' = Append(toolResults, Block(id, FALSE, "found"))
             ELSE /\ allPapers' = allPapers
                  /\ agentSteps' = Append(agentSteps,
                       [step EXCEPT !.status = "error", !.error = results.message])
                  /\ toolResults' = Append(toolResults, SearchErrorResult(id))
  /\ toolIdx' = toolIdx + 1
  /\ UNCHANGED <<inputVars, sideVars, aggVars, reply, prompts, pc, query, iteration, finished, finishReason, messages,
                 data, llmCalls, toolCount, llmStatus, agentResult, synthesis, response>>

\* an analyze_gaps invocation; suggested_queries that is not an array makes
\* .slice(0, 2).join throw, which the catch of the iteration handles
AgentAnalyzeGaps ==
  /\ AtToolUse("analyze_gaps")
  /\ LET step == [NoStep EXCEPT !.type = "analysis", !.iteration = iteration + 1]
     IN IF CurrentToolUse.malformed
        THEN /\ agentSteps' = agentSteps \o
                  <<step, [NoStep EXCEPT !.type = "error", !.iteration = iteration + 1,
                                         !.error = "TypeError"]>>
             /\ pc' = "agent_return"
             /\ UNCHANGED <<toolIdx, toolResults>>
        ELSE /\ agentSteps' = Append(agentSteps, step)
             /\ toolResults' = Append(toolResults,
                  Block(ToolUseId(iteration + 1, toolIdx), FALSE, "gap analysis recorded"))
             /\ toolIdx' = toolIdx + 1
             /\ pc' = pc
  /\ UNCHANGED <<inputVars, sideVars, aggVars, reply, prompts, query, iteration, finished, finishReason, allPapers,
                 messages, data, llmCalls, providerCalls, toolCount, llmStatus, agentResult,
                 synthesis, response>>

\* a finish invocation
AgentFinish ==
  /\ AtToolUse("finish")
  /\ agentSteps' = Append(agentSteps,
       [NoStep EXCEPT !.type = "finish", !.iteration = iteration + 1,
                      !.reasoning = CurrentToolUse.reasoning])
  /\ finished' = TRUE
  /\ finishReason' = [text |-> CurrentToolUse.reasoning, n |-> 0]
  /\ toolResults' = Append(toolResults,
       Block(ToolUseId(iteration + 1, toolIdx), FALSE, "search complete"))
  /\ toolIdx' = toolIdx + 1
  /\ UNCHANGED <<inputVars, sideVars, aggVars, reply, prompts, pc, query, iteration, allPapers, messages, data,
                 llmCalls, providerCalls, toolCount, llmStatus, agentResult, synthesis,
                 response>>

\* a tool_use block with any other name: no branch of the if-chain matches
AgentOtherTool ==
  /\ pc = "agent_tools"
  /\ toolIdx <= Len(data.content)
  /\ CurrentToolUse.name \notin {"search_papers", "analyze_gaps", "finish"}
  /\ toolIdx' = toolIdx + 1
  /\ UNCHANGED <<inputVars, sideVars, aggVars, reply, prompts, pc, query, iteration, finished, finishReason, allPapers,
                 agentSteps, messages, data, toolResults, llmCalls, providerCalls,
                 toolCount, llmStatus, agentResult, synthesis, response>>

\* end of the for-of over the tool_use blocks: the tool results go into the
\* conversation and the iteration ends
AgentEndTurn ==
  /\ pc = "agent_tools"
  /\ toolIdx > Len(data.content)
  /\ messages' = IF Len(toolResults) > 0
                 THEN Append(messages, [role |-> "user", content |-> toolResults])
                 ELSE messages
  /\ iteration' = iteration + 1
  /\ pc' = "agent_loop"
  /\ UNCHANGED <<inputVars, sideVars, aggVars, reply, prompts, query, finished, finishReason, allPapers, agentSteps,
                 data, toolIdx, toolResults, llmCalls, providerCalls, toolCount,
                 llmStatus, agentResult, synthesis, response>>

\* agentSteps.filter(s => s.type === 'search').length
CountSearches_Successful(steps) ==
  Len(SelectSeq(steps, LAMBDA st : st.type = "search" /\ st.status = "success"))
CountSearches(steps) == Len(SelectSeq(steps, LAMBDA st : st.type = "search"))

\* after the loop: the max_iterations note and the returned object
AgentReturn ==
  /\ \/ pc = "agent_return"
     \/ pc = "agent_loop" /\ ~LoopContinues(iteration, maxIterations, finished)
  /\ IF ~finished
     THEN /\ agentSteps' = Append(agentSteps, [NoStep EXCEPT !.type = "max_iterations"])
          /\ finishReason' = [text |-> "Reached iteration limit with N papers",
                              n |-> Len(allPapers)]
     ELSE UNCHANGED <<agentSteps, finishReason>>
  /\ agentResult' = [NoAgentResult EXCEPT
                       !.returned = TRUE, !.success = TRUE, !.papers = allPapers,
                       !.agentSteps = agentSteps', !.finishReason = finishReason',
                       !.totalSearches = CountSearches(agentSteps')]
  /\ pc' = "ai_process"
  /\ UNCHANGED <<inputVars, sideVars, aggVars, reply, prompts, query, iteration, finished, allPapers, messages, data,
                 toolIdx, toolResults, llmCalls, providerCalls, toolCount, llmStatus,
                 synthesis, response>>

\* ------------------------------------------------------ fallbackQueryParsing
\* the words of the stopWords set that occur in the modelled queries; a word
\* is a maximal run of tokens without "sp"
StopWords == {"what", "effect", "does", "have", "the", "on"}

\* the entries of the compoundTerms table with a word of the modelled queries,
\* in the order of the table
CompoundTerms ==
  << <<"quantum", "sp", "mechanics">>, <<"quantum", "sp", "field">>,
     <<"quantum", "sp", "gravity">>, <<"quantum", "sp", "biology">>,
     <<"dark", "sp", "matter">> >>

\* characters of a token (only the comparison with 2 matters)
TokenLen(t) == IF t = "x" THEN 1 ELSE IF t = "on" THEN 2 ELSE 3

RECURSIVE WordLen(_)
WordLen(w) == IF w = <<>> THEN 0 ELSE TokenLen(Head(w)) + WordLen(Tail(w))

\* String.prototype.toLowerCase on one token: "What" is the capitalized word
LowerCase(t) == IF t = "What" THEN "what" ELSE t

\* query.toLowerCase().replace(/[?.,!'"]/g, ' ')
Normalize(q) ==
  [i \in 1..Len(q) |-> IF q[i] \in {"?", ".", ",", "!"} THEN "sp" ELSE LowerCase(q[i])]

StartsWith(s, c) == Len(c) <= Len(s) /\ SubSeq(s, 1, Len(c)) = c

\* String.prototype.includes
Includes(s, c) == \E i \in 1..(Len(s) + 1) : StartsWith(SubSeq(s, i, Len(s)), c)

\* normalized.replace(new RegExp(compound, 'g'), ' ')
RECURSIVE ReplaceAll(_, _)
ReplaceAll(s, c) ==
  IF s = <<>> THEN <<>>
  ELSE IF StartsWith(s, c) THEN <<"sp">> \o ReplaceAll(SubSeq(s, Len(c) + 1, Len(s)), c)
       ELSE <<Head(s)>> \o ReplaceAll(Tail(s), c)

\* the loop over compoundTerms, from table entry i on
RECURSIVE ExtractCompounds(_, _, _)
ExtractCompounds(normalized, found, i) ==
  IF i > Len(CompoundTerms) THEN [normalized |-> normalized, found |-> found]
  ELSE IF Includes(normalized, CompoundTerms[i])
       THEN ExtractCompounds(ReplaceAll(normalized, CompoundTerms[i]),
                             Append(found, CompoundTerms[i]), i + 1)
       ELSE ExtractCompounds(normalized, found, i + 1)

\* String.prototype.split(/\s+/), without the empty strings
RECURSIVE SplitWords(_, _)
SplitWords(s, cur) ==
  IF s = <<>> THEN (IF cur = <<>> THEN <<>> ELSE <<cur>>)
  ELSE IF Head(s) = "sp"
       THEN (IF cur = <<>> THEN <<>> ELSE <<cur>>) \o SplitWords(Tail(s), <<>>)
       ELSE SplitWords(Tail(s), Append(cur, Head(s)))

\* stopWords.has(w)
IsStopWord_Never(w) == FALSE
IsStopWord(w) == Len(w) = 1 /\ w[1] \in StopWords

Search(q, purpose, weight) == [query |-> q, purpose |-> purpose, weight |-> weight]

\* weights are in tenths: 20 is 2.0
fallbackQueryParsing(q) ==
  LET ex == ExtractCompounds(Normalize(q), <<>>, 1)
      foundCompounds == ex.found
      words == SelectSeq(SplitWords(ex.normalized, <<>>),
                         LAMBDA w : WordLen(w) > 2 /\ ~IsStopWord(w))
      concepts == foundCompounds \o words
      s1 == [i \in 1..Len(foundCompounds) |->
               Search(foundCompounds[i], foundCompounds[i], 20)]
      combo == IF Len(concepts) >= 2 THEN concepts[1] \o <<"sp">> \o concepts[2] ELSE <<>>
      s2 == IF Len(concepts) >= 2 /\ ~(\E i \in 1..Len(s1) : s1[i].query = combo)
            THEN Append(s1, Search(combo, <<"intersection">>, 18))
            ELSE s1
      firstWords == Take(words, 2)
      kept == SelectSeq(firstWords,
                LAMBDA w : ~(\E i \in 1..Len(foundCompounds) : Includes(foundCompounds[i], w)))
      s3 == s2 \o [i \in 1..Len(kept) |-> Search(kept[i], kept[i], 10)]
      s4 == IF Len(s3) = 0
            THEN <<Search(Trim(SelectSeq(q, LAMBDA t : t \notin {"?", "!"})),
                          <<"direct query">>, 10)>>
            ELSE s3
  IN [interpretation |-> IF concepts # <<>> THEN concepts ELSE <<q>>,
      intent |-> "specific",
      concepts |-> concepts,
      searches |-> Take(s4, 4)]

\* ------------------------------------------------------ parseQueryWithClaude
\* the weight of a search whose weight property is a string that is no
\* number ("high"): NaN once Math.max has converted it
NaN == 0 - 1

\* JSON plans the LLM may return; an empty query or purpose and weight 0
\* stand for absent properties
ParsedPlans ==
  { [intent |-> "survey", searches |-> <<Search(<<"w1">>, <<"background">>, 30)>>],
    [intent |-> "specific",
     searches |-> <<Search(<<"w1">>, <<"main">>, 15), Search(<<"w2">>, <<"side">>, NaN)>>],
    [intent |-> "",
     searches |-> [i \in 1..5 |-> Search(<<>>, <<>>, <<0, 1, 10, 25, 26>>[i])]],
    [intent |-> "specific", searches |-> <<>>] }

PlanOutcomes ==
  {[kind |-> k, parsed |-> [intent |-> "", searches |-> <<>>]] :
      k \in {"throw", "http_error", "no_content", "no_json", "bad_json"}}
    \cup {[kind |-> "json", parsed |-> pl] : pl \in ParsedPlans}

\* what the planner's request to the LLM provider came to: the kind of the
\* outcome, "no_searches" for JSON whose searches property is missing, empty
\* or not an array
PlanReply(outcome) ==
  IF outcome.kind = "json" /\ Len(outcome.parsed.searches) = 0 THEN "no_searches"
  ELSE outcome.kind

\* Math.min(Math.max(s.weight || 1.0, 0.5), 2.5); Math.max and Math.min give
\* NaN for an argument that does not convert to a number
ClampWeight(w) ==
  IF w = NaN THEN NaN
  ELSE LET v == IF w = 0 THEN 10 ELSE w
       IN Min(IF v < 5 THEN 5 ELSE v, 25)

\* the plan built from the parsed JSON of the LLM
PlanFromJson(q, parsed) ==
  LET top == Take(parsed.searches, 4)
  IN [interpretation |-> <<q>>,
      intent |-> IF parsed.intent = "" THEN "specific" ELSE parsed.intent,
      concepts |-> <<>>,
      searches |-> [i \in 1..Len(top) |->
         Search(IF top[i].query = <<>> THEN q ELSE top[i].query,
                IF top[i].purpose = <<>> THEN <<"search">> ELSE top[i].purpose,
                ClampWeight(top[i].weight))]]

\* result of the planner and the number of LLM requests it made
parseQueryWithClaude_NoValidation(key, q, outcome) ==
  IF ~HasCredential(key) THEN [calls |-> 0, plan |-> fallbackQueryParsing(q)]
  ELSE IF outcome.kind # "json"
  THEN [calls |-> 1, plan |-> fallbackQueryParsing(q)]
  ELSE [calls |-> 1, plan |-> PlanFromJson(q, outcome.parsed)]
parseQueryWithClaude(key, q, outcome) ==
  IF ~HasCredential(key) THEN [calls |-> 0, plan |-> fallbackQueryParsing(q)]
  ELSE IF outcome.kind # "json" \/ Len(outcome.parsed.searches) = 0
  THEN [calls |-> 1, plan |-> fallbackQueryParsing(q)]
  ELSE [calls |-> 1, plan |-> PlanFromJson(q, outcome.parsed)]

\* --------------------------------------------------- generateAnswerSynthesis
SynthesisOutcomes == {"throw", "http_error", "no_text", "text"}

\* result ("null" or the text) and the number of LLM requests made
generateAnswerSynthesis_NoOkCheck(key, topResults, outcome) ==
  IF ~HasCredential(key) \/ Len(topResults) = 0 THEN [calls |-> 0, result |-> "null"]
  ELSE [calls |-> 1,
        result |-> IF outcome \in {"text", "http_error"} THEN "text" ELSE "null"]
generateAnswerSynthesis(key, topResults, outcome) ==
  IF ~HasCredential(key) \/ Len(topResults) = 0 THEN [calls |-> 0, result |-> "null"]
  ELSE [calls |-> 1, result |-> IF outcome = "text" THEN "text" ELSE "null"]

\* ------------------------------------------------ handleSearch, handleAISearch
ErrorResponse(status, error) == [NoResponse EXCEPT !.status = status, !.error = error]

\* !rawQuery || typeof rawQuery !== 'string': <<>> stands for a query that
\* is missing, empty or not a string
MissingQuery(raw) == raw = <<>>

\* if (!query) after the sanitizer
EmptyQuery_Never(q) == FALSE
EmptyQuery(q) == q = <<>>

\* the body checks both endpoints start with
ValidateRequest ==
  /\ pc = "start"
  /\ op \in {"search", "ai-search"}
  /\ LET q == sanitizeQuery(rawQuery)
     IN IF MissingQuery(rawQuery)
        THEN /\ response' = ErrorResponse(400, "Query is required")
             /\ pc' = "done"
             /\ query' = query
        ELSE IF EmptyQuery(q)
        THEN /\ response' = ErrorResponse(400, "Invalid query")
             /\ pc' = "done"
             /\ query' = query
        ELSE /\ query' = q
             /\ pc' = IF op = "search" THEN "plain_search" ELSE "agent_start"
             /\ response' = response
  /\ UNCHANGED <<inputVars, sideVars, aggVars, reply, prompts, agentVars, llmCalls, providerCalls, synthesis>>

PlainArgs == [query |-> query, dateRange |-> NoDate]

\* the provider call of handleSearch and its try/catch
HandleSearchCall ==
  /\ pc = "plain_search"
  /\ \E outcome \in ProviderOutcomes :
       LET searchResults == callTesseractSearch(PlainArgs, limit, "relevance", outcome,
                                                Len(providerCalls) + 1)
       IN /\ providerCalls' = Append(providerCalls,
               ProviderCall(SearchArgs(PlainArgs, limit, "relevance"), searchResults))
          /\ response' =
               IF searchResults.ok
               THEN [NoResponse EXCEPT !.status = 200, !.total = searchResults.total,
                                       !.results = searchResults.results]
               ELSE IF searchResults.message = "Unauthorized"
               THEN ErrorResponse(401, "Session expired. Please sign in again.")
               ELSE ErrorResponse(500, "Search failed. Please try again.")
  /\ pc' = "done"
  /\ UNCHANGED <<inputVars, sideVars, aggVars, reply, prompts, query, agentVars, llmCalls, synthesis>>

\* papers.slice(0, 20)
ScoredResults_Uncut(papers) == papers
ScoredResults_Latest(papers) == SubSeq(papers, Len(papers) - Min(Len(papers), ResultCap) + 1, Len(papers))
ScoredResults(papers) == Take(papers, ResultCap)

\* the response of the agentic path
AgenticResponse_Fallback(syn) ==
  [NoResponse EXCEPT !.status = 200, !.aiAnalysis = TRUE, !.fallback = TRUE,
                     !.total = Len(ScoredResults(agentResult.papers)),
                     !.results = ScoredResults(agentResult.papers),
                     !.finishReason = agentResult.finishReason, !.synthesis = syn]
AgenticResponse(syn) ==
  [NoResponse EXCEPT !.status = 200, !.aiAnalysis = TRUE,
                     !.total = Len(ScoredResults(agentResult.papers)),
                     !.results = ScoredResults(agentResult.papers),
                     !.finishReason = agentResult.finishReason, !.synthesis = syn]

\* handleAISearch after the agent returned success: the cut to 20 and the
\* decision to synthesize
AIProcess ==
  /\ pc = "ai_process"
  /\ IF Len(ScoredResults(agentResult.papers)) > 0 /\ HasCredential(hasKey)
     THEN /\ pc' = "ai_synthesis"
          /\ response' = response
     ELSE /\ pc' = "done"
          /\ response' = AgenticResponse("null")
  /\ UNCHANGED <<inputVars, sideVars, aggVars, reply, prompts, query, agentVars, llmCalls, providerCalls, synthesis>>

AISynthesis ==
  /\ pc = "ai_synthesis"
  /\ \E outcome \in SynthesisOutcomes :
       LET r == generateAnswerSynthesis(hasKey,
                                        Take(ScoredResults(agentResult.papers), SynthesisTopK),
                                        outcome)
       IN /\ llmCalls' = llmCalls + r.calls
          /\ prompts' = IF r.calls = 1 THEN Append(prompts, query) ELSE prompts
          /\ synthesis' = r.result
          /\ response' = AgenticResponse(r.result)
  /\ pc' = "done"
  /\ UNCHANGED <<inputVars, sideVars, aggVars, reply, query, agentVars, providerCalls>>

FallbackResponse_Unlabelled(results, reason) ==
  [NoResponse EXCEPT !.status = 200, !.fallbackReason = reason,
                     !.total = results.total, !.results = results.results]
FallbackResponse(results, reason) ==
  [NoResponse EXCEPT !.status = 200, !.fallback = TRUE, !.fallbackReason = reason,
                     !.total = results.total, !.results = results.results]

\* the plain search made when the agent reports success: false, and the
\* first part of the catch of handleAISearch when that search throws
AIFallback ==
  /\ pc = "ai_fallback"
  /\ \E outcome \in ProviderOutcomes :
       LET fallbackResults == callTesseractSearch(PlainArgs, limit, "relevance", outcome,
                                                  Len(providerCalls) + 1)
       IN /\ providerCalls' = Append(providerCalls,
               ProviderCall(SearchArgs(PlainArgs, limit, "relevance"), fallbackResults))
          /\ IF fallbackResults.ok
             THEN /\ response' = FallbackResponse(fallbackResults, agentResult.fallbackReason)
                  /\ pc' = "done"
             ELSE IF fallbackResults.message = "Unauthorized"
             THEN /\ response' = ErrorResponse(401, "Session expired. Please sign in again.")
                  /\ pc' = "done"
             ELSE /\ response' = response
                  /\ pc' = "ai_catch"
  /\ UNCHANGED <<inputVars, sideVars, aggVars, reply, prompts, query, agentVars, llmCalls, synthesis>>

\* the plain search inside the catch of handleAISearch
AICatchFallback ==
  /\ pc = "ai_catch"
  /\ \E outcome \in ProviderOutcomes :
       LET fallbackResults == callTesseractSearch(PlainArgs, limit, "relevance", outcome,
                                                  Len(providerCalls) + 1)
       IN /\ providerCalls' = Append(providerCalls,
               ProviderCall(SearchArgs(PlainArgs, limit, "relevance"), fallbackResults))
          /\ response' =
               IF fallbackResults.ok THEN FallbackResponse(fallbackResults, "")
               ELSE ErrorResponse(500, "Search failed. Please try again.")
  /\ pc' = "done"
  /\ UNCHANGED <<inputVars, sideVars, aggVars, reply, prompts, query, agentVars, llmCalls, synthesis>>

\* ------------------------------------------------------------ handleSummarize
IsTerminator(t) == t \in {".", "!", "?"}

\* plainText.match(/[^.!?]+[.!?]+/g)
RECURSIVE SkipWhile(_, _)
SkipWhile(s, term) ==
  IF s # <<>> /\ IsTerminator(Head(s)) = term THEN 1 + SkipWhile(Tail(s), term) ELSE 0

RECURSIVE MatchSentences(_)
MatchSentences(s) ==
  LET lead == SkipWhile(s, TRUE)
      rest == SubSeq(s, lead + 1, Len(s))
      bodyLen == SkipWhile(rest, FALSE)
      endLen == SkipWhile(SubSeq(rest, bodyLen + 1, Len(rest)), TRUE)
  IN IF rest = <<>> \/ endLen = 0 THEN <<>>
     ELSE <<SubSeq(rest, 1, bodyLen + endLen)>>
            \o MatchSentences(SubSeq(rest, bodyLen + endLen + 1, Len(rest)))

\* Array.prototype.join(' ')
RECURSIVE JoinWithSpace(_)
JoinWithSpace(parts) ==
  IF parts = <<>> THEN <<>>
  ELSE IF Len(parts) = 1 THEN parts[1]
  ELSE parts[1] \o <<"sp">> \o JoinWithSpace(Tail(parts))

extractFirstSentences(text, n) ==
  IF text = <<>> THEN <<"No summary available.">>
  ELSE LET plainText == RemoveSpans(text, "lt", "gt")
           matched == MatchSentences(plainText)
           sentences == IF matched = <<>> THEN <<plainText>> ELSE matched
       IN Trim(JoinWithSpace(Take(sentences, n)))

SummarizeOutcomes == {"throw", "http_error", "no_text", "text"}

\* if (searchQuery): the prompt quotes body.searchQuery as it was received
SearchQueryGiven(searchQuery) == searchQuery # <<>>

SummaryResponse(summary, aiGenerated, fromTitle) ==
  [NoResponse EXCEPT !.status = 200, !.summary = summary,
                     !.aiGenerated = aiGenerated, !.fromTitle = fromTitle]

\* the whole endpoint: at most one LLM call, whose prompt holds searchQuery
HandleSummarize ==
  /\ pc = "start"
  /\ op = "summarize"
  /\ \E outcome \in SummarizeOutcomes :
       /\ reply' = IF HasCredential(hasKey) /\ ~(title = <<>> /\ abstract = <<>>)
                   THEN outcome ELSE reply
       /\ IF title = <<>> /\ abstract = <<>>
          THEN /\ response' = ErrorResponse(400, "Title or abstract is required")
               /\ llmCalls' = llmCalls
          ELSE IF Trim(abstract) = <<>>
          THEN IF ~HasCredential(hasKey)
               THEN /\ response' = SummaryResponse(<<"Research on:">> \o title, FALSE, FALSE)
                    /\ llmCalls' = llmCalls
               ELSE /\ llmCalls' = llmCalls + 1
                    /\ response' = IF outcome = "text"
                                   THEN SummaryResponse(<<"llm text">>, TRUE, TRUE)
                                   ELSE SummaryResponse(<<"Research on:">> \o title, FALSE, FALSE)
          ELSE IF ~HasCredential(hasKey)
               THEN /\ response' = SummaryResponse(extractFirstSentences(abstract, 2), FALSE, FALSE)
                    /\ llmCalls' = llmCalls
               ELSE /\ llmCalls' = llmCalls + 1
                    /\ response' = IF outcome = "text"
                                   THEN SummaryResponse(<<"llm text">>, TRUE, FALSE)
                                   ELSE SummaryResponse(extractFirstSentences(abstract, 2),
                                                        FALSE, FALSE)
  /\ prompts' = IF llmCalls' > llmCalls /\ SearchQueryGiven(rawQuery)
                THEN Append(prompts, rawQuery) ELSE prompts
  /\ pc' = "done"
  /\ UNCHANGED <<inputVars, sideVars, aggVars, query, agentVars, providerCalls, synthesis>>

\* ------------------------------------------------------------- direct calls
\* parseQueryWithClaude(env, sanitizeQuery(rawQuery))
CallParseQuery ==
  /\ pc = "start"
  /\ op = "plan"
  /\ query' = sanitizeQuery(rawQuery)
  /\ \E outcome \in PlanOutcomes :
       LET r == parseQueryWithClaude(hasKey, sanitizeQuery(rawQuery), outcome)
       IN /\ llmCalls' = llmCalls + r.calls
          /\ prompts' = IF r.calls = 1 THEN Append(prompts, query') ELSE prompts
          /\ reply' = IF r.calls = 1 THEN PlanReply(outcome) ELSE reply
          /\ response' = [NoResponse EXCEPT !.plan = r.plan]
  /\ pc' = "done"
  /\ UNCHANGED <<inputVars, sideVars, aggVars, agentVars, providerCalls, synthesis>>

\* generateAnswerSynthesis(env, query, intent, topResults)
CallSynthesis ==
  /\ pc = "start"
  /\ op = "synthesis"
  /\ query' = sanitizeQuery(rawQuery)
  /\ \E n \in {0, 2}, outcome \in SynthesisOutcomes :
       LET r == generateAnswerSynthesis(hasKey, [i \in 1..n |-> [doi |-> i, src |-> 0]],
                                        outcome)
       IN /\ llmCalls' = llmCalls + r.calls
          /\ prompts' = IF r.calls = 1 THEN Append(prompts, query') ELSE prompts
          /\ reply' = IF r.calls = 1 THEN outcome ELSE reply
          /\ synthesis' = r.result
          /\ response' = [NoResponse EXCEPT !.synthesis = r.result, !.total = n]
  /\ pc' = "done"
  /\ UNCHANGED <<inputVars, sideVars, aggVars, agentVars, providerCalls>>

\* ------------------------------------------------------------ specification
Next ==
  \/ ValidateRequest
  \/ HandleSearchCall
  \/ AgentStart
  \/ AgentLLMCall
  \/ AgentSearchPapers
  \/ AgentAnalyzeGaps
  \/ AgentFinish
  \/ AgentOtherTool
  \/ AgentEndTurn
  \/ AgentReturn
  \/ AIProcess
  \/ AISynthesis
  \/ AIFallback
  \/ AICatchFallback
  \/ HandleSummarize
  \/ CallParseQuery
  \/ CallSynthesis

Spec == Init /\ [][Next]_vars

\* ------------------------------------------- the pure functions on their own
\* inputs of sanitizeQuery: every text of at most MaxTokens tokens over
\* SanitizerAlphabet, and longer samples
SanitizerAlphabet == {"w1", "sp", "system", ":", "inj", "url"}

SanitizerSamples ==
  { <<"ignore", "sp", "ignore", "sp", "previous", "sp", "instructions",
      "previous", "sp", "instructions">>,
    <<"system", "lbr", "w1", "rbr", ":">>,
    <<"tick", "tick", "tick", "w1", "tick", "tick", "tick", "w2", "tick">>,
    <<"lt", "w1", "gt", "w2", "sp", "lt">>,
    <<"sp", "w1", "sp", "sp", "system", "sp", "w2", "sp", ":", "sp">>,
    <<"long", "w1">>,
    <<"w1", "sp", "long">>,
    <<"sp", "long">>,
    <<"long">> }

SanitizerInputs == SeqsUpTo(SanitizerAlphabet, MaxTokens) \cup SanitizerSamples

\* inputs of fallbackQueryParsing
ParserAlphabet == {"dark", "matter", "sp", "gravity", "effect", "on", "?"}

ParserSamples ==
  { <<"What", "sp", "effect", "sp", "does", "sp", "gravity", "sp", "have", "sp",
      "on", "sp", "biology", "?">>,
    <<"quantum", "sp", "entanglement">>,
    <<"quantum", "sp", "mechanics", "sp", "quantum", "sp", "field", "sp",
      "quantum", "sp", "gravity", "sp", "dark", "sp", "matter">>,
    <<"the", "sp", "x", "sp", "on", "!">> }

ParserInputs == SeqsUpTo(ParserAlphabet, MaxTokens) \cup ParserSamples

PureInit ==
  /\ op \in {"sanitize", "parse", "plan"}
  /\ hasKey \in (IF op = "plan" THEN BOOLEAN ELSE {FALSE})
  /\ rawQuery \in (IF op = "sanitize" THEN SanitizerInputs
                   ELSE IF op = "parse" THEN ParserInputs ELSE ParserSamples)
  /\ title = <<>>
  /\ abstract = <<>>
  /\ limit = 15
  /\ maxIterations = 1
  /\ now = DefaultTime
  /\ subResults = <<>>
  /\ StartState

\* sanitizeQuery(rawQuery)
CallSanitize ==
  /\ pc = "start"
  /\ op = "sanitize"
  /\ query' = sanitizeQuery(rawQuery)
  /\ pc' = "done"
  /\ UNCHANGED <<inputVars, sideVars, aggVars, reply, prompts, agentVars, llmCalls, providerCalls, synthesis,
                 response>>

\* fallbackQueryParsing(rawQuery)
CallFallbackParsing ==
  /\ pc = "start"
  /\ op = "parse"
  /\ query' = rawQuery
  /\ response' = [NoResponse EXCEPT !.plan = fallbackQueryParsing(rawQuery)]
  /\ pc' = "done"
  /\ UNCHANGED <<inputVars, sideVars, aggVars, reply, prompts, agentVars, llmCalls, providerCalls, synthesis>>

PureNext ==
  \/ CallSanitize
  \/ CallFallbackParsing
  \/ CallParseQuery

PureSpec == PureInit /\ [][PureNext]_vars

\* ------------------------------------------------------- result aggregator
\* The aggregator of the deterministic-planning path (README, Search
\* Algorithm, steps 4 to 6) is not part of the worker source at hand, whose
\* /ai-search is the agentic path; it is modelled after section 4.5 of the
\* specification.  Accumulated weights and scores are in thousandths.
\* An Aggregate Result Entry: the document identifier, the summed weight, the
\* overlap count and the purposes of the contributing sub-queries.
\* contribution of the article at 0-based rank position i of a sub-query
RankWeight(subqueryWeight, i) == subqueryWeight * (100 - i * RankDecay)

\* position of the entry of identifier doi in the map, 0 when there is none
EntryIndex(es, doi, i) ==
  LET at == {j \in i..Len(es) : es[j].doi = doi}
  IN IF at = {} THEN 0 ELSE CHOOSE j \in at : \A k \in at : j <= k

\* one sighting of an article: records without identifier are left out, a
\* first sighting creates the entry, a repeat sighting adds to the weight,
\* appends the purpose and increments the overlap
Sighting_Overwrite(es, doi, purpose, rankWeight) ==
  LET i == EntryIndex(es, doi, 1)
  IN IF doi = 0 THEN es
     ELSE IF i = 0
     THEN Append(es, [doi |-> doi, weight |-> rankWeight, overlapCount |-> 1,
                      sources |-> <<purpose>>])
     ELSE [es EXCEPT ![i] = [@ EXCEPT !.weight = rankWeight,
                                      !.overlapCount = @ + 1,
                                      !.sources = Append(@, purpose)]]
Sighting_NoSource(es, doi, purpose, rankWeight) ==
  LET i == EntryIndex(es, doi, 1)
  IN IF doi = 0 THEN es
     ELSE IF i = 0
     THEN Append(es, [doi |-> doi, weight |-> rankWeight, overlapCount |-> 1,
                      sources |-> <<purpose>>])
     ELSE [es EXCEPT ![i] = [@ EXCEPT !.weight = @ + rankWeight,
                                      !.overlapCount = @ + 1]]
Sighting(es, doi, purpose, rankWeight) ==
  LET i == EntryIndex(es, doi, 1)
  IN IF doi = 0 THEN es
     ELSE IF i = 0
     THEN Append(es, [doi |-> doi, weight |-> rankWeight, overlapCount |-> 1,
                      sources |-> <<purpose>>])
     ELSE [es EXCEPT ![i] = [@ EXCEPT !.weight = @ + rankWeight,
                                      !.overlapCount = @ + 1,
                                      !.sources = Append(@, purpose)]]

\* the result list of one sub-query merged into the map, from rank position i
\* on (the test of Len(es), which is always true, has TLC evaluate the map of
\* one sighting before the next sighting is merged into it)
RECURSIVE MergeList(_, _, _)
MergeList(es, sub, i) ==
  IF i < Len(sub.list) /\ Len(es) >= 0
  THEN MergeList(Sighting(es, sub.list[i + 1], sub.purpose, RankWeight(sub.weight, i)),
                 sub, i + 1)
  ELSE es

\* final relevance score = accumulated weight + (overlapCount - 1) x 1.5
Score_NoBonus(e) == e.weight
Score(e) == e.weight + (e.overlapCount - 1) * OverlapBonus * 100

\* e put into a list sorted by descending score, behind the entries that
\* score at least as much: the order of the map decides between equal scores
InsertByScore(sorted, e) ==
  LET n == Cardinality({j \in 1..Len(sorted) : Score(sorted[j]) >= Score(e)})
  IN SubSeq(sorted, 1, n) \o <<e>> \o SubSeq(sorted, n + 1, Len(sorted))

\* the entries of the map from position i on put into the sorted list, one
\* after the other (the test of Len(sorted), which is always true, has TLC
\* evaluate one insertion before the next)
RECURSIVE InsertAll(_, _, _)
InsertAll(sorted, es, i) ==
  IF i <= Len(es) /\ Len(sorted) >= 0
  THEN InsertAll(InsertByScore(sorted, es[i]), es, i + 1)
  ELSE sorted

\* sort descending by score
SortByScore(es) == InsertAll(<<>>, es, 1)

\* sort descending by this score; truncate to 20
RankedOutput(es) == Take(SortByScore(es), ResultCap)

\* what a sub-query may come to: its weight in tenths and its result list
\* (identifiers in rank order)
AggregatorInputs ==
  { [weight |-> 10, list |-> <<1, 2>>],
    [weight |-> 20, list |-> <<1, 2>>],
    [weight |-> 10, list |-> <<3, 0, 3>>],
    [weight |-> 20, list |-> [i \in 1..12 |-> i + 3]],
    [weight |-> 10, list |-> [i \in 1..12 |-> i + 12]] }

\* the results of the n sub-queries of a plan, each with the purpose and the
\* weight of its sub-query
SubQueryResults(n) ==
  { [k \in 1..n |-> [purpose |-> k, weight |-> c[k].weight, list |-> c[k].list]] :
      c \in [1..n -> AggregatorInputs] }

AggregatorInit ==
  /\ op = "aggregate"
  /\ hasKey = FALSE
  /\ rawQuery = <<>>
  /\ title = <<>>
  /\ abstract = <<>>
  /\ limit = 15
  /\ maxIterations = 1
  /\ now = DefaultTime
  /\ subResults \in UNION {SubQueryResults(n) : n \in 1..MaxSubQueries}
  /\ StartState

\* the results of one more sub-query arrive and are merged into the map
MergeResults ==
  /\ pc = "start"
  /\ op = "aggregate"
  /\ \E k \in (1..Len(subResults)) \ arrived :
       /\ entries' = MergeList(entries, subResults[k], 0)
       /\ arrived' = arrived \cup {k}
  /\ UNCHANGED <<inputVars, sideVars, reply, prompts, pc, query, agentVars, llmCalls, providerCalls,
                 synthesis, ranked, response>>

\* all results have arrived: the ranked output
RankResults ==
  /\ pc = "start"
  /\ op = "aggregate"
  /\ arrived = 1..Len(subResults)
  /\ ranked' = RankedOutput(entries)
  /\ pc' = "done"
  /\ UNCHANGED <<inputVars, sideVars, reply, prompts, query, agentVars, llmCalls, providerCalls,
                 synthesis, arrived, entries, response>>

AggregatorNext ==
  \/ MergeResults
  \/ RankResults

AggregatorSpec == AggregatorInit /\ [][AggregatorNext]_vars

\* ------------------------------------------------------------ the sidebar
\* The content script: handleSearch, executeAISearch, executeSimpleSearch,
\* renderSynthesis, displayResults, fetchAISummaries, saveSearchState and
\* restoreSearchState.  The user is signed in.  An article carries, besides
\* its identifier, the query whose response it came with (from), which the
\* code does not store.
\* currentAIAnalysis = null, and an analysis without synthesis
NoAnalysis == [synthesis |-> <<>>]

\* no physchat_search_state in chrome.storage.local
NoSavedState ==
  [query |-> "", results |-> <<>>, totalFound |-> 0, aiAnalysis |-> NoAnalysis]

workerVars == <<pc, query, agentVars, llmCalls, providerCalls, prompts, synthesis, reply,
                response>>

SidebarQueries == {"qa", "qb"}

\* result lists (identifiers) the worker may answer a query with
SidebarLists(q) ==
  IF q = "qa" THEN {<<1, 2>>, [i \in 1..7 |-> i]} ELSE {<<>>, <<2, 3>>}

\* the numbers of the citation markers [n] of a synthesis text, in the order
\* of the text; <<>> stands for no synthesis
SynthesisMarkers == {<<>>, <<1, 2>>, <<0, 7>>}

\* article.abstract is absent for the article of identifier 3
HasAbstract(doi) == doi # 3

\* what the worker answers to a search: a failure, or results with the
\* synthesis of the AI analysis
WorkerResponses(q) ==
  {[ok |-> FALSE, results |-> <<>>, synthesis |-> <<>>]}
    \cup {[ok |-> TRUE,
           results |-> [i \in 1..Len(l) |-> [doi |-> l[i], from |-> q]],
           synthesis |-> m] : l \in SidebarLists(q), m \in SynthesisMarkers}

\* the links renderSynthesis makes of the markers: [n] becomes a link to
\* results[n - 1] if 0 <= n - 1 < results.length
RenderedLinks(results, markers) ==
  {[n |-> markers[k], paper |-> markers[k], doi |-> results[markers[k]].doi] :
     k \in {j \in 1..Len(markers) : markers[j] - 1 >= 0 /\ markers[j] - 1 < Len(results)}}

\* renderSynthesis(results, totalFound, aiAnalysis): nothing is rendered for
\* an empty list; without synthesis the panel shows statistics
renderSynthesis(results, analysis) ==
  IF results = <<>> THEN [panel EXCEPT !.visible = FALSE]
  ELSE [visible |-> TRUE,
        links |-> IF analysis.synthesis # <<>>
                  THEN RenderedLinks(results, analysis.synthesis) ELSE {}]

\* createResultCard: the summary is made of the abstract, and a card without
\* abstract waits for a summary
ResultCard(article) ==
  [doi |-> article.doi, from |-> article.from,
   summary |-> IF HasAbstract(article.doi) THEN "abstract" ELSE "loading",
   summaryFor |-> "",
   needsSummary |-> ~HasAbstract(article.doi)]

\* displayResults(results, total): an empty list leaves the cards alone
displayResults(results) ==
  IF results = <<>> THEN cards ELSE [i \in 1..Len(results) |-> ResultCard(results[i])]

\* the fetchAISummaries loop started for the first five results of a search
SummaryJob(id, results, search) ==
  [id |-> id, search |-> search, articles |-> Take(results, SynthesisTopK)]

\* document.querySelector('.physchat-result-summary[data-doi="..."]'): the
\* first card of the identifier, 0 when there is none
CardOf(doi) ==
  LET at == {i \in 1..Len(cards) : cards[i].doi = doi}
  IN IF at = {} THEN 0 ELSE CHOOSE i \in at : \A j \in at : i <= j

SidebarInit ==
  /\ op = "sidebar"
  /\ hasKey = FALSE
  /\ rawQuery = <<>>
  /\ title = <<>>
  /\ abstract = <<>>
  /\ limit = 15
  /\ maxIterations = 1
  /\ now = DefaultTime
  /\ subResults = <<>>
  /\ StartState

\* init on a page: the saved state of less than ten minutes is restored
RestoreSearchState ==
  /\ op = "sidebar"
  /\ ~loaded
  /\ loaded' = TRUE
  /\ \E fresh \in BOOLEAN :
       IF storage.results = <<>>
       THEN UNCHANGED <<currentQuery, currentResults, currentTotalFound,
                        currentAIAnalysis, summaryJobs, cards, panel, storage>>
       ELSE IF fresh
       THEN /\ currentQuery' = storage.query
            /\ currentResults' = storage.results
            /\ currentTotalFound' = storage.totalFound
            /\ currentAIAnalysis' = storage.aiAnalysis
            /\ panel' = renderSynthesis(storage.results, storage.aiAnalysis)
            /\ cards' = displayResults(storage.results)
            /\ summaryJobs' = {SummaryJob(0, storage.results, storage.results[1].from)}
            /\ storage' = storage
       ELSE /\ storage' = NoSavedState
            /\ UNCHANGED <<currentQuery, currentResults, currentTotalFound,
                           currentAIAnalysis, summaryJobs, cards, panel>>
  /\ UNCHANGED <<inputVars, aggVars, workerVars, submitted, inflight, errorVisible>>

\* handleSearch up to the request: the query is stored and the panels, the
\* cards and the saved state are cleared
HandleSearch ==
  /\ op = "sidebar"
  /\ loaded
  /\ submitted < MaxSearches
  /\ \E q \in SidebarQueries, useAI \in BOOLEAN :
       /\ currentQuery' = q
       /\ inflight' = inflight \cup {[id |-> submitted + 1, query |-> q, useAI |-> useAI]}
  /\ submitted' = submitted + 1
  /\ panel' = [panel EXCEPT !.visible = FALSE]
  /\ errorVisible' = FALSE
  /\ cards' = <<>>
  /\ storage' = NoSavedState
  /\ UNCHANGED <<inputVars, aggVars, workerVars, loaded, currentResults, currentTotalFound,
                 currentAIAnalysis, summaryJobs>>

\* the response of a search arrives: executeAISearch or executeSimpleSearch
\* after the await, and the catch of handleSearch
SearchCompletes ==
  /\ op = "sidebar"
  /\ \E req \in inflight : \E resp \in WorkerResponses(req.query) :
       /\ inflight' = inflight \ {req}
       /\ IF ~resp.ok
          THEN /\ errorVisible' = TRUE
               /\ UNCHANGED <<currentResults, currentTotalFound, currentAIAnalysis,
                              summaryJobs, cards, panel>>
          ELSE IF req.useAI
          THEN LET analysis == [synthesis |-> resp.synthesis]
               IN /\ currentResults' = resp.results
                  /\ currentTotalFound' = Len(resp.results)
                  /\ currentAIAnalysis' = analysis
                  /\ panel' = renderSynthesis(resp.results, analysis)
                  /\ cards' = displayResults(resp.results)
                  /\ summaryJobs' = IF resp.results # <<>>
                                    THEN summaryJobs \cup {SummaryJob(req.id, resp.results, req.query)}
                                    ELSE summaryJobs
                  /\ errorVisible' = errorVisible
          ELSE /\ currentResults' = resp.results
               /\ currentTotalFound' = Len(resp.results)
               /\ currentAIAnalysis' = NoAnalysis
               /\ cards' = displayResults(resp.results)
               /\ UNCHANGED <<summaryJobs, panel, errorVisible>>
  /\ UNCHANGED <<inputVars, aggVars, workerVars, loaded, submitted, currentQuery, storage>>

\* one turn of the loop of fetchAISummaries: the answer of /summarize for the
\* next article goes into the card that has its identifier now
SummaryCompletes ==
  /\ op = "sidebar"
  /\ \E job \in summaryJobs : \E outcome \in {"summary", "none", "throw"} :
       LET article == Head(job.articles)
           i == CardOf(article.doi)
           rest == [job EXCEPT !.articles = Tail(job.articles)]
       IN /\ summaryJobs' = (summaryJobs \ {job})
                              \cup (IF rest.articles = <<>> THEN {} ELSE {rest})
          /\ cards' = IF outcome = "summary" /\ i # 0
                      THEN [cards EXCEPT ![i] = [@ EXCEPT !.summary = "ai",
                                                          !.summaryFor = job.search,
                                                          !.needsSummary = FALSE]]
                      ELSE IF outcome = "throw" /\ i # 0 /\ cards[i].needsSummary
                      THEN [cards EXCEPT ![i] = [@ EXCEPT !.summary = "details"]]
                      ELSE cards
  /\ UNCHANGED <<inputVars, aggVars, workerVars, loaded, submitted, currentQuery,
                 currentResults, currentTotalFound, currentAIAnalysis, inflight, panel,
                 errorVisible, storage>>

\* handleArticleClick: the state is saved and the page is left, and with it
\* the variables of the script, its requests and its document
HandleArticleClick ==
  /\ op = "sidebar"
  /\ loaded
  /\ cards # <<>>
  /\ storage' = IF currentResults # <<>>
                THEN [query |-> currentQuery, results |-> currentResults,
                      totalFound |-> currentTotalFound, aiAnalysis |-> currentAIAnalysis]
                ELSE storage
  /\ loaded' = FALSE
  /\ submitted' = 0
  /\ currentQuery' = ""
  /\ currentResults' = <<>>
  /\ currentTotalFound' = 0
  /\ currentAIAnalysis' = NoAnalysis
  /\ inflight' = {}
  /\ summaryJobs' = {}
  /\ cards' = <<>>
  /\ panel' = [visible |-> FALSE, links |-> {}]
  /\ errorVisible' = FALSE
  /\ UNCHANGED <<inputVars, aggVars, workerVars>>

SidebarNext ==
  \/ RestoreSearchState
  \/ HandleSearch
  \/ SearchCompletes
  \/ SummaryCompletes
  \/ HandleArticleClick

SidebarSpec == SidebarInit /\ [][SidebarNext]_vars

\* ================================================================== claims
AgentPcs == {"agent_loop", "agent_tools", "agent_return"}

Last(s) == s[Len(s)]

StepsOfType(steps, type) == SelectSeq(steps, LAMBDA st : st.type = type)

\* an LLM call of the loop is answered in this step
LLMAnswered == pc = "agent_loop" /\ llmCalls' = llmCalls + 1

\* C1: executeAgenticSearch issues at most maxIterations LLM calls, and a run
\* that made all of them without a finish or an end of turn returns a step log
\* that contains a max_iterations step.
C1_BoundedIterations ==
  /\ pc \in AgentPcs \cup {"ai_process"} => llmCalls <= maxIterations
  /\ (pc = "ai_process" /\ llmCalls = maxIterations /\ ~finished)
       => /\ agentResult.returned
          /\ StepsOfType(agentResult.agentSteps, "max_iterations") # <<>>

C1_Witness ==
  /\ pc = "ai_process"
  /\ maxIterations >= 2
  /\ llmCalls = maxIterations
  /\ ~finished
  /\ llmStatus = 200
  /\ toolCount > 0
  /\ Last(agentResult.agentSteps).type = "max_iterations"

C3_NoActionTerminates ==
  [][(LLMAnswered /\ data' # NoData /\ data'.content = <<>>)
       => /\ pc' = "agent_return"
          /\ finished'
          /\ finishReason'.text = "Agent completed reasoning"]_vars

\* C4: a search_papers invocation whose provider call fails records a search
\* step with status error and an error tool result for that invocation,
\* leaves the collected papers unchanged and does not end the loop.
C4_SearchFailureContinues ==
  [][(AtToolUse("search_papers") /\ providerCalls' # providerCalls
        /\ ~Last(providerCalls').ok)
       => /\ Len(agentSteps') = Len(agentSteps) + 1
          /\ Last(agentSteps').type = "search"
          /\ Last(agentSteps').status = "error"
          /\ Len(toolResults') = Len(toolResults) + 1
          /\ Last(toolResults').is_error
          /\ Last(toolResults').tool_use_id = ToolUseId(iteration + 1, toolIdx)
          /\ allPapers' = allPapers
          /\ pc' = "agent_tools"
          /\ finished' = finished
          /\ iteration' = iteration]_vars

\* a failed search in iteration 1 was followed by a successful one in iteration 2
C4_Witness ==
  \E i, j \in 1..Len(agentSteps) :
    /\ agentSteps[i].type = "search" /\ agentSteps[i].status = "error"
    /\ agentSteps[i].iteration = 1
    /\ agentSteps[j].type = "search" /\ agentSteps[j].status = "success"
    /\ agentSteps[j].iteration = 2
    /\ llmCalls = 2

\* C5: an LLM call of the loop that throws or returns a non-success status
\* ends the loop at that iteration, and the result has success = true and
\* exactly the papers collected before.
C5_LLMFailureReturnsPapers ==
  /\ [][(LLMAnswered /\ data' = NoData)
          => /\ pc' = "agent_return"
             /\ allPapers' = allPapers
             /\ iteration' = iteration]_vars
  /\ [][pc = "agent_return"
          => /\ pc' = "ai_process"
             /\ llmCalls' = llmCalls
             /\ agentResult'.returned
             /\ agentResult'.success
             /\ agentResult'.papers = allPapers]_vars

C5_Witness ==
  /\ agentResult.returned
  /\ agentResult.success
  /\ data = NoData
  /\ llmStatus = 500
  /\ llmCalls = 2
  /\ llmCalls < maxIterations
  /\ Len(agentResult.papers) > 0

DistinctDois(papers) ==
  /\ \A i \in 1..Len(papers) : papers[i].doi # 0
  /\ Cardinality({papers[i].doi : i \in 1..Len(papers)}) = Len(papers)

\* C6: the papers collected and returned by the agentic planner have pairwise
\* distinct, non-empty identifiers.
C6_DedupedPapers ==
  /\ DistinctDois(allPapers)
  /\ DistinctDois(agentResult.papers)
  /\ response.aiAnalysis => DistinctDois(response.results)

\* two successful searches, the first returned a record without identifier
\* and a repeated one, the second returned identifiers the first had returned
C6_Witness ==
  /\ pc = "done"
  /\ response.aiAnalysis
  /\ \E i, j \in 1..Len(agentSteps) :
       /\ i < j
       /\ agentSteps[i].status = "success" /\ agentSteps[i].totalFound = 4
       /\ agentSteps[i].newPapers = 2
       /\ agentSteps[j].status = "success" /\ agentSteps[j].totalFound = 12
       /\ agentSteps[j].newPapers = 8

\* C7 as claimed: every HTTP 200 response of /ai-search carries at most 20
\* results.
C7_Original ==
  (op = "ai-search" /\ response.status = 200) => Len(response.results) <= ResultCap

\* C7 (amended): an HTTP 200 response of the agentic path carries at most 20
\* results; a fallback response carries the list the provider returned for
\* per_page = min(limit, 100).
C7_AgenticCap ==
  (op = "ai-search" /\ response.status = 200) =>
     IF response.aiAnalysis
     THEN Len(response.results) <= ResultCap /\ response.total <= ResultCap
     ELSE response.fallback /\ Len(response.results) <= Min(limit, ProviderMaxPerPage)

C7_Witness ==
  /\ op = "ai-search"
  /\ response.status = 200
  /\ response.aiAnalysis
  /\ Len(agentResult.papers) > ResultCap
  /\ Len(response.results) = ResultCap

\* C8: without an LLM credential no request is sent to the LLM provider; the
\* agentic planner returns success = false without papers and steps, the
\* deterministic planner returns the plan of fallbackQueryParsing, and the
\* synthesis generator returns null.
C8_NoCredentialFallback ==
  ~hasKey =>
    /\ llmCalls = 0
    /\ agentResult.returned =>
         /\ ~agentResult.success
         /\ agentResult.papers = <<>>
         /\ agentResult.agentSteps = <<>>
    /\ (op = "plan" /\ pc = "done") => response.plan = fallbackQueryParsing(query)
    /\ (op = "synthesis" /\ pc = "done") => response.synthesis = "null"

C8_Witness ==
  /\ ~hasKey
  /\ op = "ai-search"
  /\ pc = "done"
  /\ agentResult.returned
  /\ response.status = 200
  /\ response.fallback

\* C9: when the LLM provider rejects a call of the loop before any paper was
\* collected, /ai-search answers with the plain-search fallback (aiAnalysis
\* null, fallback true) or with the failure of that search, not with an
\* agentic result.
C9_LLMRejectionFallsBack ==
  (pc = "done" /\ op = "ai-search" /\ hasKey /\ data = NoData
     /\ llmStatus >= 400 /\ allPapers = <<>>)
    => /\ ~response.aiAnalysis
       /\ response.status = 200 => response.fallback
       /\ providerCalls # <<>>
       /\ Last(providerCalls).args.q = query

\* C10: when the provider rejects the credential in any provider call of a
\* /search or /ai-search request, the response is HTTP 401 'Session expired'.
C10_AuthFailureSurfaced ==
  (pc = "done" /\ op \in {"search", "ai-search"}
     /\ \E i \in 1..Len(providerCalls) : providerCalls[i].message = "Unauthorized")
    => /\ response.status = 401
       /\ response.error = "Session expired. Please sign in again."

\* the plain search in the try block of handleAISearch fails in this step:
\* the AI-search flow throws
AIFlowThrows ==
  /\ pc = "ai_fallback"
  /\ Len(providerCalls') = Len(providerCalls) + 1
  /\ ~Last(providerCalls').ok

\* the catch block searches once more with the sanitized query and answers
\* with the results of that search labelled as a fallback, or with HTTP 500
\* when that search fails
CatchReattempts ==
  pc = "ai_catch" =>
    /\ Len(providerCalls') = Len(providerCalls) + 1
    /\ Last(providerCalls').args.q = sanitizeQuery(rawQuery)
    /\ pc' = "done"
    /\ IF Last(providerCalls').ok
       THEN /\ response'.status = 200
            /\ response'.fallback
            /\ ~response'.aiAnalysis
            /\ \A i \in 1..Len(response'.results) :
                 response'.results[i].src = Len(providerCalls')
       ELSE response'.status = 500

\* /ai-search answers 500 only after the search of the try block and the
\* search of the catch block have both failed
GenericFailureOnlyAfterReattempt ==
  (op = "ai-search" /\ response.status = 500)
    => /\ Len(providerCalls) = 2
       /\ ~providerCalls[1].ok
       /\ ~providerCalls[2].ok

\* C11 as claimed: whenever the AI-search flow throws, a plain search with the
\* sanitized query is attempted again and its results are returned with
\* fallback true and aiAnalysis null; HTTP 500 only when that search fails.
C11_Original ==
  /\ [][(AIFlowThrows => pc' = "ai_catch") /\ CatchReattempts]_vars
  /\ []GenericFailureOnlyAfterReattempt

\* C11 (amended): when the AI-search flow throws an error other than
\* 'Unauthorized', a plain search with the sanitized query is attempted again
\* and its results are returned with fallback true and aiAnalysis null, HTTP
\* 500 only when that search fails too; when it throws 'Unauthorized' the
\* response is HTTP 401 and no further search is made.
C11_ReattemptUnlessUnauthorized ==
  /\ [][/\ AIFlowThrows =>
             IF Last(providerCalls').message = "Unauthorized"
             THEN pc' = "done" /\ response'.status = 401
             ELSE pc' = "ai_catch" /\ response' = response
        /\ CatchReattempts]_vars
  /\ []GenericFailureOnlyAfterReattempt

\* the first plain search failed and the one made in the catch succeeded
C11_Witness ==
  /\ pc = "done"
  /\ op = "ai-search"
  /\ Len(providerCalls) = 2
  /\ ~providerCalls[1].ok
  /\ providerCalls[2].ok
  /\ response.status = 200
  /\ response.fallback
  /\ ~response.aiAnalysis
  /\ Len(response.results) > 0

\* C12: in every HTTP 200 response of /ai-search, aiAnalysis is null exactly
\* when fallback is true.
C12_AnalysisOrFallback ==
  (op = "ai-search" /\ response.status = 200)
    => (response.aiAnalysis <=> ~response.fallback)

\* an agentic response with results, after at least one successful search
C12_Witness ==
  /\ pc = "done"
  /\ op = "ai-search"
  /\ response.status = 200
  /\ response.aiAnalysis
  /\ ~response.fallback
  /\ Len(response.results) > 0
  /\ llmCalls >= 2

\* C13: within one request no provider call repeats the query of an earlier
\* provider call that failed.
C13_NoRetry ==
  \A i, j \in 1..Len(providerCalls) :
    (i < j /\ ~providerCalls[i].ok)
      => providerCalls[j].args.q # providerCalls[i].args.q

\* the queries that are missing or that the sanitizer empties
UnusableQueries == {q \in RawQueries : sanitizeQuery(q) = <<>>}

\* C14: a /search or /ai-search request whose query is missing or sanitizes
\* to the empty string is answered with HTTP 400, and no request is sent to
\* the search provider or to the LLM provider.
C14_InvalidQueryRejected ==
  (op \in {"search", "ai-search"} /\ rawQuery \in UnusableQueries)
    => /\ providerCalls = <<>>
       /\ llmCalls = 0
       /\ prompts = <<>>
       /\ pc \in {"start", "done"}
       /\ pc = "done" => /\ response.status = 400
                         /\ response.error \in {"Query is required", "Invalid query"}

\* a non-empty query that the sanitizer empties was rejected
C14_Witness ==
  /\ pc = "done"
  /\ op = "ai-search"
  /\ hasKey
  /\ rawQuery # <<>>
  /\ sanitizeQuery(rawQuery) = <<>>
  /\ response.status = 400
  /\ response.error = "Invalid query"

\* C15: every query text placed into an LLM prompt, and every query the
\* endpoints themselves send to the search provider, is the output of the
\* sanitizer for the query the request carried.
C15_QueriesSanitized ==
  /\ op \in {"search", "ai-search", "summarize"}
       => \A i \in 1..Len(prompts) : prompts[i] = sanitizeQuery(rawQuery)
  /\ (op = "search" \/ (op = "ai-search" /\ ~hasKey))
       => \A i \in 1..Len(providerCalls) :
            providerCalls[i].args.q = sanitizeQuery(rawQuery)

\* a match of one of the injection patterns somewhere in s
HasInjection(s) ==
  \E i \in 1..Len(s) :
    \/ \E k \in 1..Len(InjectionPatterns) :
         MatchAt(SubSeq(s, i, Len(s)), InjectionPatterns[k]) > 0
    \/ s[i] = "lbr" /\ \E j \in (i + 1)..Len(s) : s[j] = "rbr"

\* C16: the output of sanitizeQuery contains no match of an injection
\* pattern, whatever the input.
C16_NoInjectionInOutput ==
  (op = "sanitize" /\ pc = "done") => ~HasInjection(query)

\* a code span, a tag or a URL somewhere in s
HasCodeSpan(s) == \E i, j \in 1..Len(s) : i < j /\ s[i] = "tick" /\ s[j] = "tick"
HasTag(s) == \E i, j \in 1..Len(s) : i < j /\ s[i] = "lt" /\ s[j] = "gt"
HasUrl(s) == \E i \in 1..(Len(s) - 1) : s[i] = "url" /\ s[i + 1] # "sp"

\* benign text: nothing the removal rules of the sanitizer match
Benign(s) == ~HasCodeSpan(s) /\ ~HasTag(s) /\ ~HasInjection(s) /\ ~HasUrl(s)

\* s with its whitespace runs collapsed to one space and trimmed
WhitespaceNormalized(s) == JoinWithSpace(SplitWords(s, <<>>))

\* C17 as claimed: for every non-empty benign input the output of
\* sanitizeQuery is the input with whitespace runs collapsed and trimmed.
C17_Original ==
  (op = "sanitize" /\ pc = "done" /\ rawQuery # <<>> /\ Benign(rawQuery))
    => query = WhitespaceNormalized(rawQuery)

\* C17 (amended): for every non-empty benign input of at most MAX_QUERY_LENGTH
\* characters the output of sanitizeQuery is the input with whitespace runs
\* collapsed and trimmed.
C17_BenignPreserved ==
  (op = "sanitize" /\ pc = "done" /\ rawQuery # <<>> /\ Benign(rawQuery)
     /\ CharLength(rawQuery) <= MAX_QUERY_LENGTH)
    => query = WhitespaceNormalized(rawQuery)

\* a benign input with a whitespace run between two words was sanitized
C17_Witness ==
  /\ op = "sanitize"
  /\ pc = "done"
  /\ Benign(rawQuery)
  /\ CharLength(rawQuery) <= MAX_QUERY_LENGTH
  /\ \E i \in 2..(Len(rawQuery) - 2) :
       /\ rawQuery[i - 1] # "sp"
       /\ rawQuery[i] = "sp" /\ rawQuery[i + 1] = "sp"
       /\ rawQuery[i + 2] # "sp"
  /\ Len(query) = Len(rawQuery) - 1

\* C18: a search_papers invocation with search_type 'recent' sends the
\* provider a start date with the year of the call time minus 3 and the month
\* and day of the call time; every other provider call sends no start date.
C18_RecentStartDate ==
  [][(Len(providerCalls') = Len(providerCalls) + 1)
       => Last(providerCalls').args.start_date =
            IF pc = "agent_tools" /\ CurrentToolUse.search_type = "recent"
            THEN [year |-> now.year - 3, month |-> now.month, day |-> now.day]
            ELSE NoDate]_vars

\* the concepts and sub-queries of the plan a call of the fallback parser returned
ParserReturned == op = "parse" /\ pc = "done"

ConceptIsStopWord(c) == Len(c) = 1 /\ c[1] \in StopWords

\* n[a..b] is a whitespace-delimited token of n
TokenAt(n, a, b) ==
  /\ a <= b
  /\ \A i \in a..b : n[i] # "sp"
  /\ a = 1 \/ n[a - 1] = "sp"
  /\ b = Len(n) \/ n[b + 1] = "sp"

\* an occurrence of a compound term of the table shares a position with n[a..b]
OverlapsCompound(n, a, b) ==
  \E k \in 1..Len(CompoundTerms), i \in 1..Len(n) :
    /\ StartsWith(SubSeq(n, i, Len(n)), CompoundTerms[k])
    /\ i <= b
    /\ i + Len(CompoundTerms[k]) - 1 >= a

\* no concept is a stop word or has 2 or fewer characters
ConceptsFiltered ==
  \A i \in 1..Len(response.plan.concepts) :
    /\ ~ConceptIsStopWord(response.plan.concepts[i])
    /\ WordLen(response.plan.concepts[i]) > 2

\* the plan has the intersection sub-query of the first two concepts
HasIntersection ==
  \E i \in 1..Len(response.plan.searches) :
    response.plan.searches[i] =
      Search(response.plan.concepts[1] \o <<"sp">> \o response.plan.concepts[2],
             <<"intersection">>, 18)

CompoundConcepts ==
  {i \in 1..Len(response.plan.concepts) :
     \E k \in 1..Len(CompoundTerms) : response.plan.concepts[i] = CompoundTerms[k]}

GravityQuery ==
  <<"What", "sp", "effect", "sp", "does", "sp", "gravity", "sp", "have", "sp",
    "on", "sp", "biology", "?">>

\* C19 as claimed: the concepts hold no stop word and no token of 2 or fewer
\* characters, every non-stop token of the query longer than that occurs in a
\* concept, and with 2 or more concepts the plan has the intersection
\* sub-query of the first two at weight 1.8.
C19_Original ==
  ParserReturned =>
    /\ ConceptsFiltered
    /\ LET n == Normalize(rawQuery)
       IN \A a, b \in 1..Len(n) :
            (TokenAt(n, a, b) /\ WordLen(SubSeq(n, a, b)) > 2
               /\ ~ConceptIsStopWord(SubSeq(n, a, b)))
              => \E i \in 1..Len(response.plan.concepts) :
                   Includes(response.plan.concepts[i], SubSeq(n, a, b))
    /\ Len(response.plan.concepts) >= 2 => HasIntersection

\* C19 (amended): the concepts hold no stop word and no token of 2 or fewer
\* characters; every token of the lower-cased, punctuation-free query that is
\* longer than 2 characters, is no stop word and shares no character with an
\* occurrence of a compound term is a concept; with 2 or more concepts of which
\* at most 3 are compound terms the plan has the intersection sub-query of the
\* first two at weight 1.8 ('gravity biology' for the gravity question).
C19_FallbackConcepts ==
  ParserReturned =>
    /\ ConceptsFiltered
    /\ LET n == Normalize(rawQuery)
       IN \A a, b \in 1..Len(n) :
            (TokenAt(n, a, b) /\ WordLen(SubSeq(n, a, b)) > 2
               /\ ~ConceptIsStopWord(SubSeq(n, a, b))
               /\ ~OverlapsCompound(n, a, b))
              => \E i \in 1..Len(response.plan.concepts) :
                   response.plan.concepts[i] = SubSeq(n, a, b)
    /\ (Len(response.plan.concepts) >= 2 /\ Cardinality(CompoundConcepts) <= 3)
         => HasIntersection
    /\ rawQuery = GravityQuery
         => /\ response.plan.concepts = << <<"gravity">>, <<"biology">> >>
            /\ \E i \in 1..Len(response.plan.searches) :
                 response.plan.searches[i] =
                   Search(<<"gravity", "sp", "biology">>, <<"intersection">>, 18)

\* the gravity question was parsed
C19_Witness ==
  /\ ParserReturned
  /\ rawQuery = GravityQuery
  /\ Len(response.plan.concepts) = 2
  /\ Len(response.plan.searches) = 3
  /\ HasIntersection

QuantumEntanglement == <<"quantum", "sp", "entanglement">>

\* C20: without LLM credential the plan for 'quantum entanglement' has the
\* sub-query 'quantum entanglement' with that purpose and weight 2.0, and no
\* sub-query contains a stop word.
C20_QuantumEntanglementPlan ==
  (op = "plan" /\ pc = "done" /\ ~hasKey /\ rawQuery = QuantumEntanglement)
    => /\ \E i \in 1..Len(response.plan.searches) :
            response.plan.searches[i] =
              Search(QuantumEntanglement, QuantumEntanglement, 20)
       /\ \A i \in 1..Len(response.plan.searches) :
            \A j \in 1..Len(response.plan.searches[i].query) :
              response.plan.searches[i].query[j] \notin StopWords

\* a call of the deterministic planner, or of its fallback parser, has returned
PlanReturned == op \in {"plan", "parse"} /\ pc = "done"

\* C21: every plan the deterministic planner returns, built from the LLM
\* response or by the fallback parser, has between 2 and 4 sub-queries, each
\* with a weight in [0.5, 2.5].
C21_PlanShape ==
  PlanReturned =>
    /\ Len(response.plan.searches) \in 2..4
    /\ \A i \in 1..Len(response.plan.searches) :
         response.plan.searches[i].weight \in 5..25

\* the replies of the LLM provider that leave the planner without a usable plan
UnusablePlanReplies ==
  {"throw", "http_error", "no_content", "no_json", "bad_json", "no_searches"}

\* C22: parseQueryWithClaude returns a plan in every case, and without LLM
\* credential, or when the LLM request fails or answers without content,
\* without a JSON object, with unparsable JSON or without a non-empty searches
\* array, that plan is the one fallbackQueryParsing gives for the same query.
C22_PlannerFallsBack ==
  (op = "plan" /\ pc = "done") =>
    /\ response.plan # NoPlan
    /\ llmCalls = (IF hasKey THEN 1 ELSE 0)
    /\ (~hasKey \/ reply \in UnusablePlanReplies)
         => response.plan = fallbackQueryParsing(query)

\* the LLM answered the gravity question with JSON that has no searches
C22_Witness ==
  /\ op = "plan"
  /\ pc = "done"
  /\ hasKey
  /\ reply = "no_searches"
  /\ rawQuery = GravityQuery
  /\ Len(response.plan.searches) = 3
  /\ response.plan.concepts = << <<"gravity">>, <<"biology">> >>

\* the replies of the LLM provider that give the synthesis generator no text
NoSynthesisReplies == {"throw", "http_error", "no_text"}

\* C23: the synthesis generator returns null, after at most one request, when
\* there is no LLM credential, the list is empty, or the LLM request throws,
\* fails or answers without text; and whatever the generator returns, an
\* /ai-search request whose agent run succeeded is answered with HTTP 200, the
\* collected papers cut to 20 and that synthesis (null when none was made).
C23_SynthesisOptional ==
  /\ (op = "synthesis" /\ pc = "done") =>
       /\ llmCalls = (IF hasKey /\ response.total > 0 THEN 1 ELSE 0)
       /\ (~hasKey \/ response.total = 0 \/ reply \in NoSynthesisReplies)
            => response.synthesis = "null"
  /\ (op = "ai-search" /\ pc = "done" /\ agentResult.success) =>
       /\ response.status = 200
       /\ response.aiAnalysis
       /\ response.results = Take(agentResult.papers, ResultCap)
       /\ response.synthesis = synthesis
       /\ response.results = <<>> => response.synthesis = "null"

\* an agentic response with papers whose synthesis request gave no text
C23_Witness ==
  /\ op = "ai-search"
  /\ pc = "done"
  /\ response.aiAnalysis
  /\ Len(response.results) > 0
  /\ Len(prompts) = llmCalls
  /\ llmCalls >= 2
  /\ response.synthesis = "null"

\* the abstract of the request without its markup
StrippedAbstract == RemoveSpans(abstract, "lt", "gt")

\* C24: /summarize answers HTTP 200 whatever the LLM does; aiGenerated is true
\* only when the LLM returned text; without that text a non-empty abstract
\* gives a summary that is the beginning of the markup-stripped abstract, word
\* for word, and an empty abstract with a title gives 'Research on: {title}'.
C24_SummarizerFallback ==
  (op = "summarize" /\ pc = "done" /\ ~(title = <<>> /\ abstract = <<>>)) =>
    /\ response.status = 200
    /\ response.aiGenerated => (hasKey /\ reply = "text")
    /\ (~hasKey \/ reply # "text") =>
         /\ ~response.aiGenerated
         /\ Trim(abstract) # <<>> =>
              /\ response.summary # <<>>
              /\ StartsWith(TrimStart(StrippedAbstract), response.summary)
         /\ (Trim(abstract) = <<>> /\ title # <<>>) =>
              response.summary = <<"Research on:">> \o title

\* the aggregator has ranked the results of all sub-queries
Aggregated == op = "aggregate" /\ pc = "done"

\* the map after merging the result lists in the order of the plan, from
\* sub-query k on
RECURSIVE MergeInPlanOrder(_, _)
MergeInPlanOrder(es, k) ==
  IF k <= Len(subResults) /\ Len(es) >= 0
  THEN MergeInPlanOrder(MergeList(es, subResults[k], 0), k + 1)
  ELSE es

\* weight and overlap count of every article of a map
WeightsAndOverlaps(es) ==
  {[doi |-> es[i].doi, weight |-> es[i].weight, overlapCount |-> es[i].overlapCount] :
     i \in 1..Len(es)}

Dois(es) == [i \in 1..Len(es) |-> es[i].doi]

Scores(es) == [i \in 1..Len(es) |-> Score(es[i])]

\* no two articles of the map have the same score
DistinctScores(es) == Cardinality({Score(es[i]) : i \in 1..Len(es)}) = Len(es)

C26_OverlapIsSourceCount ==
  /\ \A i \in 1..Len(entries) :
       /\ entries[i].overlapCount = Len(entries[i].sources)
       /\ entries[i].overlapCount >= 1
  /\ \A i \in 1..Len(ranked) :
       /\ ranked[i].overlapCount = Len(ranked[i].sources)
       /\ ranked[i].overlapCount >= 1

\* the third list arrived before the first, both held the same article, and
\* the second list is still to arrive
C26_Witness ==
  /\ op = "aggregate"
  /\ pc = "start"
  /\ arrived = {1, 3}
  /\ \E i \in 1..Len(entries) :
       /\ entries[i].overlapCount = 2
       /\ entries[i].sources = <<3, 1>>

\* the sightings of identifier doi: <<k, i>> for 0-based rank i of sub-query k
SightingsOf(doi) ==
  {<<k, i>> \in (1..Len(subResults)) \X (0..11) :
     i < Len(subResults[k].list) /\ subResults[k].list[i + 1] = doi}

RECURSIVE SumRankWeights(_)
SumRankWeights(S) ==
  IF S = {} THEN 0
  ELSE LET x == CHOOSE y \in S : TRUE
       IN RankWeight(subResults[x[1]].weight, x[2]) + SumRankWeights(S \ {x})

\* position of identifier doi in the ranked output, 0 when it is not in it
RankOf(doi) == EntryIndex(ranked, doi, 1)

\* C27: the aggregator keeps one entry per identifier; the score of an article
\* is the sum of the weights of its sightings plus (overlapCount - 1) x 1.5;
\* the output is the 20 best entries in descending order of score; and of two
\* articles with the same accumulated weight the one that more sub-query
\* results contained is ranked before the other.
C27_RankedByScore ==
  Aggregated =>
    /\ DistinctDois(entries)
    /\ \A i \in 1..Len(entries) :
         /\ SightingsOf(entries[i].doi) # {}
         /\ entries[i].weight = SumRankWeights(SightingsOf(entries[i].doi))
         /\ entries[i].overlapCount = Cardinality(SightingsOf(entries[i].doi))
    /\ Len(ranked) = Min(Len(entries), ResultCap)
    /\ \A i \in 1..Len(ranked) : EntryIndex(entries, ranked[i].doi, 1) # 0
                                   /\ ranked[i] = entries[EntryIndex(entries, ranked[i].doi, 1)]
    /\ \A i \in 1..(Len(ranked) - 1) :
         ranked[i].weight + (ranked[i].overlapCount - 1) * 1500
           >= ranked[i + 1].weight + (ranked[i + 1].overlapCount - 1) * 1500
    /\ \A i \in 1..Len(entries) :
         RankOf(entries[i].doi) = 0
           => entries[i].weight + (entries[i].overlapCount - 1) * 1500
                <= ranked[Len(ranked)].weight + (ranked[Len(ranked)].overlapCount - 1) * 1500
    /\ \A i, j \in 1..Len(entries) :
         (entries[i].weight = entries[j].weight
            /\ entries[i].overlapCount > entries[j].overlapCount
            /\ RankOf(entries[j].doi) # 0)
           => /\ RankOf(entries[i].doi) # 0
              /\ RankOf(entries[i].doi) < RankOf(entries[j].doi)

\* more than 20 articles, and an article found by two sub-queries is ranked
\* before one of the same accumulated weight found by one
C27_Witness ==
  /\ Aggregated
  /\ Len(entries) > ResultCap
  /\ Len(ranked) = ResultCap
  /\ \E i, j \in 1..Len(ranked) :
       /\ i < j
       /\ ranked[i].weight = ranked[j].weight
       /\ ranked[i].overlapCount = 2
       /\ ranked[j].overlapCount = 1
       /\ EntryIndex(entries, ranked[i].doi, 1) > EntryIndex(entries, ranked[j].doi, 1)

\* the result of the agent run reports that the iteration limit was reached
ReportsIterationLimit ==
  \/ StepsOfType(agentResult.agentSteps, "max_iterations") # <<>>
  \/ agentResult.finishReason.text = "Reached iteration limit with N papers"

\* C28: an agentic result holds a max_iterations step or the finish reason
\* 'Reached iteration limit with N papers' only if the run issued exactly
\* maxIterations LLM calls.
C28_LimitOnlyWhenExhausted ==
  (pc = "ai_process" /\ agentResult.success /\ ReportsIterationLimit)
    => llmCalls = maxIterations

\* C29: once a finish invocation has been processed in an agentic run, no
\* provider search is made and no paper is added in that run any more.
C29_NothingAfterFinish ==
  [][(pc \in AgentPcs /\ StepsOfType(agentSteps, "finish") # <<>>)
       => /\ providerCalls' = providerCalls
          /\ allPapers' = allPapers]_vars

\* user and assistant messages alternate, starting with the user, and every
\* tool_use block of an assistant message has exactly one tool result with
\* its id in the user message that follows
WellFormedConversation(msgs) ==
  /\ \A i \in 1..Len(msgs) :
       msgs[i].role = (IF i % 2 = 1 THEN "user" ELSE "assistant")
  /\ \A i \in 1..Len(msgs) :
       msgs[i].role = "assistant" =>
         /\ i < Len(msgs)
         /\ Len(msgs[i + 1].content) = Len(msgs[i].content)
         /\ \A j \in 1..Len(msgs[i].content) :
              Cardinality({k \in 1..Len(msgs[i + 1].content) :
                             msgs[i + 1].content[k].tool_use_id
                               = msgs[i].content[j].tool_use_id}) = 1

\* C30: the conversation sent with every LLM call of the agent loop after the
\* first alternates user and assistant messages, starting with the user, and
\* answers every action invocation of an assistant message with exactly one
\* tool result of the same id in the next user message.
C30_ConversationWellFormed ==
  [][(LLMAnswered /\ llmCalls >= 1) => WellFormedConversation(messages)]_vars

\* 1-based rank of the first record of identifier doi in the page, 0 when
\* the page does not hold it
FirstRank(page, doi) ==
  LET at == {r \in 1..Len(page) : page[r] = doi}
  IN IF at = {} THEN 0 ELSE CHOOSE r \in at : \A q \in at : r <= q

\* added is what a first sighting in the page adds behind the papers of old:
\* the identifiers of the page that old does not hold, each once, in the
\* order of their first rank
FirstSeenOrder(old, added, page) ==
  /\ {added[i].doi : i \in 1..Len(added)}
       = {page[r] : r \in 1..Len(page)} \ ({0} \cup {old[i].doi : i \in 1..Len(old)})
  /\ \A i, j \in 1..Len(added) :
       i < j => FirstRank(page, added[i].doi) < FirstRank(page, added[j].doi)

\* C31: the agentic path keeps the papers in first-seen order: every step
\* leaves the stored records and their positions as they are, a successful
\* search appends the identifiers it saw first, in rank order, behind them,
\* and the results of the response are the first 20 papers of that order.
C31_FirstSeenOrder ==
  [][/\ Len(allPapers') >= Len(allPapers)
     /\ SubSeq(allPapers', 1, Len(allPapers)) = allPapers
     /\ (pc = "agent_tools" /\ Len(providerCalls') = Len(providerCalls) + 1) =>
          IF Last(providerCalls').ok
          THEN \E l \in ProviderLists :
                 /\ Len(l) = Last(agentSteps').totalFound
                 /\ FirstSeenOrder(allPapers,
                                   SubSeq(allPapers', Len(allPapers) + 1, Len(allPapers')),
                                   Take(l, Last(providerCalls').args.per_page))
          ELSE allPapers' = allPapers
     /\ (pc \in {"ai_process", "ai_synthesis"} /\ pc' = "done") =>
          /\ response'.aiAnalysis
          /\ response'.results = Take(allPapers, ResultCap)
          /\ response'.total = Len(response'.results)]_vars

\* two successful searches answered the request, the second returned an
\* identifier the first had returned, and more than 20 papers were collected
C31_Witness ==
  /\ pc = "done"
  /\ response.aiAnalysis
  /\ Len(providerCalls) = 2
  /\ Len(allPapers) = 29
  /\ allPapers[1].src = 1
  /\ allPapers[29].src = 2
  /\ Len(response.results) = ResultCap

\* the search steps of a step log
SearchSteps(steps) == StepsOfType(steps, "search")

RECURSIVE SumNewPapers(_)
SumNewPapers(steps) ==
  IF steps = <<>> THEN 0
  ELSE (IF Head(steps).type = "search" /\ Head(steps).status = "success"
        THEN Head(steps).newPapers ELSE 0) + SumNewPapers(Tail(steps))

SidebarSettled ==
  /\ op = "sidebar"
  /\ loaded
  /\ submitted = MaxSearches
  /\ inflight = {}
  /\ summaryJobs = {}
  /\ ~errorVisible

\* C33: when the searches submitted in the sidebar, overlapping or not, have
\* all completed, the results stored and the cards displayed are those of the
\* query submitted last, and no card holds a summary that was fetched for the
\* results of another search.
C33_LatestSearchShown ==
  SidebarSettled =>
    /\ \A i \in 1..Len(currentResults) : currentResults[i].from = currentQuery
    /\ \A i \in 1..Len(cards) :
         /\ cards[i].from = currentQuery
         /\ cards[i].summary = "ai" => cards[i].summaryFor = cards[i].from

\* C37: every link of the synthesis panel stands for a marker [n] with n
\* between 1 and 5, the number of a paper that was supplied to the synthesis
\* generator, and leads to the n-th result.
C37_LinksCiteSuppliedPapers ==
  \A l \in panel.links :
    /\ l.n \in 1..SynthesisTopK
    /\ l.paper = l.n

\* C34: sanitizeQuery is idempotent: what it returns is left as it is by a
\* second pass.
C34_SanitizeIdempotent ==
  (op = "sanitize" /\ pc = "done") => sanitizeQuery(query) = query

\* C35: an analyze_gaps invocation appends exactly one analysis step and one
\* advisory tool result, leaves the collected papers, the finished flag and the
\* finish reason as they are, and calls no provider.
C35_AnalyzeGapsFrame ==
  [][AtToolUse("analyze_gaps") =>
       /\ Len(agentSteps') = Len(agentSteps) + 1
       /\ agentSteps'[Len(agentSteps')].type = "analysis"
       /\ agentSteps'[Len(agentSteps')].iteration = iteration + 1
       /\ Len(toolResults') = Len(toolResults) + 1
       /\ toolResults'[Len(toolResults')] =
            Block(ToolUseId(iteration + 1, toolIdx), FALSE, "gap analysis recorded")
       /\ allPapers' = allPapers
       /\ finished' = finished
       /\ finishReason' = finishReason
       /\ providerCalls' = providerCalls]_vars

\* C36: for a non-empty sanitized query, when no compound term and no
\* non-stop word survives, the fallback plan is the single sub-query whose
\* text is the query itself, with weight 1.0; and every sub-query of the plan
\* has a non-empty text.
C36_DirectQueryFallback ==
  (op = "parse" /\ pc = "done" /\ query # <<>> /\ sanitizeQuery(query) = query) =>
    /\ response.plan.concepts = <<>> =>
         response.plan.searches = <<Search(query, <<"direct query">>, 10)>>
    /\ \A i \in 1..Len(response.plan.searches) :
         response.plan.searches[i].query # <<>>

====
